---- MODULE Spec2Model ----
(***************************************************************************)
(* SplatFlow backend: the pipeline orchestrator (backend/pipeline.py) and  *)
(* the toolchain resolver (backend/toolchain.py) as state machines.        *)
(*                                                                         *)
(* Spec      one SplatPipeline.run, one step per blocking call (an         *)
(*           external command, a tool resolution, a copy).                 *)
(* SpecTool  a Toolchain instance answering colmap_exec / lichtfeld_exec / *)
(*           ensure_env / ensure_micromamba calls over the settings, the   *)
(*           host and the tools directory.                                 *)
(* SpecProbe a Toolchain instance answering colmap_options calls.          *)
(* SpecBuild the command builders of tools/colmap.py,                      *)
(*           tools/sharp_frames.py and tools/lichtfeld.py over probed      *)
(*           options and configurations.                                   *)
(* SpecRun   CommandRunner.run reading a subprocess's output line by line, *)
(*           and CommandRunner.run_capture on the same subprocess.         *)
(* SpecRunCallback  the same with an on_line callback that raises.         *)
(* SpecWs    Workspace.create called by successive pipeline runs over one  *)
(*           jobs directory and one wall clock.                            *)
(* SpecFrames the video loop of _ingest copying the sampled frames into    *)
(*           the workspace under their new names.                          *)
(* SpecInstall  ensure_env and ensure_colmap_official line by line, run by *)
(*           two Toolchain instances over one tools directory.             *)
(* SpecAsset the choice of the release asset in _download_lichtfeld.       *)
(***************************************************************************)
EXTENDS Integers, Sequences, FiniteSets, TLC

\* Bounds of the model.
MaxVideos == 3      \* video files found at the input path
MaxFrames == 4      \* frame_sampling.num_frames
MaxImages == 1      \* images at the input path / frames one sampler run leaves
MaxClock == 1       \* readings of the wall clock (seconds) at Workspace.create
MaxCalls == 2       \* resolver calls on one Toolchain instance
MaxOption == 2      \* numeric fields of the configuration a builder reads
MaxText == 4        \* characters a subprocess writes to its output
MaxTail == 2        \* RunOptions.tail_lines
MaxRuns == 2        \* pipeline runs over one jobs directory
MaxTicks == 3       \* readings of the wall clock, several to a second
MaxSampled == 2     \* frames one sampler run leaves in its output directory
MaxAssets == 2      \* assets listed by a release of the trainer

VARIABLES
    config,      \* PipelineConfig, with what its validate() reads from disk
    src,         \* the input path: [videos, images] found there
    clock,       \* time.strftime reading used by Workspace.create
    pos,         \* where SplatPipeline.run is
    entered,     \* stages of the run's state machine entered so far
    events,      \* stage(), emit("Running"), runner.run, run_capture, resolutions
    error,       \* the exception that left run, "none" if none
    ws_exists,   \* workspace.root is on disk
    out_exists,  \* <output_dir>/<workspace name> is on disk
    images,      \* files in workspace.images_dir
    sparse0,     \* colmap/sparse/0 exists
    dataset,     \* <output>/<run>/dataset was written by the export
    result,      \* PipelineResult, "none" before the return
    vid,         \* index i of the video loop of _ingest
    passed,      \* num_frames of each SharpFramesArgs built in the video loop
    ci,          \* index into cmds of _run_colmap
    dataset_dir, \* the paths below <output>/<run>/dataset
    listing,     \* the video files of the input directory, as iterdir yields them
    sampled,     \* the video handed to each sampler invocation of the video loop
    settings,    \* Settings: tool_paths, auto_install_tools, colmap.source
    host,        \* os.name, and what which() finds on PATH
    disk,        \* tools_dir: executables and marker files
    ret,         \* outcome of the last resolver call
    effects,     \* what the last resolver call did, in order
    ncalls,      \* resolver calls made so far
    creates,     \* micromamba create commands run so far
    help,        \* what the installed colmap prints for <subcommand> -h
    colmap_options_cache,  \* Toolchain._colmap_options_cache
    help_runs,   \* help commands run so far, per subcommand
    probe,       \* the last colmap_options call: subcommand, returned set, how
    cfg,         \* ColmapConfig handed to the reconstruction builders
    sharp,       \* SharpFramesArgs: input_type and FrameSamplingConfig
    cmd,         \* the last command a builder returned
    lf,          \* LichtfeldConfig handed to LichtfeldTrainArgs
    proc,        \* the subprocess: command, output text, exit code, RunOptions
    nread,       \* lines run has read from proc.stdout
    tail,        \* the deque of run
    delivered,   \* lines run handed to on_line, in order
    outcome,     \* how run ended: returned or CommandFailedError
    captured,    \* how run_capture ended on the same subprocess
    child,       \* the subprocess of run: running, exited, or waited for
    now,         \* the wall clock, in ticks
    jobs,        \* the jobs directory: per workspace root, what is on disk
    created,     \* the Workspace.create calls so far: root, files found in it
    stems,       \* vid.stem of each element of videos
    fi,          \* index i of the video loop whose frames are being copied
    fj,          \* index j of the copy loop
    images_dir,  \* the file names in workspace.images_dir
    copied,      \* frames found in the samplers' output directories so far
    tools_dir,   \* the tools directory two resolvers share
    inst,        \* per resolver: the method it runs and the line it stands at
    done,        \* the install steps that have finished successfully
    platform_tag,\* what _platform_tag returned
    assets,      \* the assets of the trainer's latest release, as listed
    chosen       \* the asset _download_lichtfeld picked, 0 for none

pipeVars == <<config, src, clock, pos, entered, events, error, ws_exists,
              out_exists, images, sparse0, dataset, result, vid, passed, ci,
              dataset_dir, listing, sampled>>
toolVars == <<settings, host, disk, ret, effects, ncalls, creates, help,
              colmap_options_cache, help_runs, probe, cfg, sharp, cmd, lf>>
runVars == <<proc, nread, tail, delivered, outcome, captured, child>>
wsVars == <<now, jobs, created>>
frameVars == <<stems, fi, fj, images_dir, copied>>
installVars == <<tools_dir, inst, done>>
assetVars == <<platform_tag, assets, chosen>>
serviceVars == <<runVars, wsVars, frameVars, installVars, assetVars>>
vars == <<pipeVars, toolVars, serviceVars>>

Max(a, b) == IF a >= b THEN a ELSE b

\* The elements of a sequence
Range(s) == { s[k] : k \in DOMAIN s }

RECURSIVE SumSeq(_)
SumSeq(s) == IF s = <<>> THEN 0 ELSE Head(s) + SumSeq(Tail(s))

(***************************************************************************)
(* schema.py: validation of the job configuration.                         *)
(***************************************************************************)
SELECTION_METHODS == {"best-n", "batched", "outlier-removal"}

\* FrameSamplingConfig.validate: params_ok stands for the checks on fps, width
\* and the numeric pair of the selected method other than num_frames.
FrameSamplingValid(fs) ==
    IF ~fs.enabled THEN TRUE
    ELSE /\ fs.params_ok
         /\ (fs.selection_method = "best-n" => fs.num_frames > 0)

\* A validation that stops after the input and the output.
InputOutputValid(c) ==
    /\ c.input_ok
    /\ c.output_ok

\* PipelineConfig.validate: the five sub-validations, any of which raises.
PipelineConfigValid(c) ==
    /\ c.input_ok
    /\ c.output_ok
    /\ FrameSamplingValid(c.frame_sampling)
    /\ c.colmap_ok
    /\ c.lichtfeld_ok

Configs ==
    [ input_type : {"images", "video"},
      input_ok : BOOLEAN,
      output_ok : BOOLEAN,
      frame_sampling : [ enabled : BOOLEAN,
                         selection_method : SELECTION_METHODS,
                         num_frames : 0..MaxFrames,
                         params_ok : BOOLEAN ],
      colmap_ok : BOOLEAN,
      matcher : {"exhaustive", "sequential"},
      lichtfeld_ok : BOOLEAN,
      keep_intermediates : BOOLEAN,
      output_dir : {"out"} ]

(***************************************************************************)
(* workspace.py                                                            *)
(***************************************************************************)
\* Workspace.create: jobs_dir / f"{safe}-{ts}"
WorkspaceRoot(ts) == <<"jobs", <<"splatflow", ts>>>>

\* Path.name of a workspace root
PathName(p) == p[Len(p)]

(***************************************************************************)
(* pipeline.py: the per-video frame budget of _ingest.                     *)
(***************************************************************************)
\* The remainder handed to the last videos instead of the first.
NumFramesRemainderLast(fs, n, i) ==
    IF fs.selection_method = "best-n" /\ n > 1
    THEN Max(1, fs.num_frames \div n)
           + (IF i >= n - (fs.num_frames % n) THEN 1 ELSE 0)
    ELSE fs.num_frames

\* fs_cfg.num_frames of the SharpFramesArgs built for video i (0-based) of n.
NumFramesFor(fs, n, i) ==
    IF fs.selection_method = "best-n" /\ n > 1
    THEN Max(1, fs.num_frames \div n)
           + (IF i < fs.num_frames % n THEN 1 ELSE 0)
    ELSE fs.num_frames

(***************************************************************************)
(* pipeline.py: SplatPipeline.run                                          *)
(***************************************************************************)
StageOrder == <<"Validate", "Ingest", "Reconstruct", "Export", "Train", "Done">>

\* stage(name): a log entry and the on_stage callback
StageEvent(name) == <<"stage", name>>
\* emit("Running: " + cmd)
LogEvent(name) == <<"log", name>>
\* runner.run(cmd, on_line=emit)
RunEvent(name) == <<"run", name>>
\* runner.run_capture([..., sub, "-h"]) of Toolchain.colmap_options
ProbeEvent(name) == <<"capture", name>>
\* toolchain.<tool>_exec()
ResolveEvent(name) == <<"resolve", name>>

\* An error swallowed: recorded, the run goes on.
RaiseSwallowed(e) ==
    /\ error' = e
    /\ pos' = pos

\* An exception leaves run: nothing in run or its helpers catches it.
Raise(e) ==
    /\ error' = e
    /\ pos' = "raised"

\* What a call of toolchain.colmap_exec / lichtfeld_exec can do to the run.
ResolveOutcomes == {"ok", "ToolNotFoundError", "Exception"}

\* What a child process can exit with.
ExitCodes == {0, 1}

Stage == IF pos = "raised" THEN "Failed" ELSE entered[Len(entered)]

\* ToolExec: exe, the invocation prefix, and whether env overlays PATH.
NoTool == [ exe |-> "", prefix |-> <<>>, env_path |-> FALSE ]

\* The subcommands whose options the builders ask for
Subcommands == {"feature_extractor", "exhaustive_matcher", "sequential_matcher"}

\* A colmap that prints nothing for -h
NoHelp == [ c \in Subcommands |-> <<>> ]

\* Toolchain.__init__: an empty options cache, nothing probed yet
InitCache ==
    /\ colmap_options_cache = [ c \in {} |-> {} ]
    /\ help_runs = [ c \in Subcommands |-> 0 ]
    /\ probe = [ cmd |-> "none", opts |-> {}, exit |-> "none" ]

\* ColmapConfig() of schema.py
DefaultColmapConfig ==
    [ matcher |-> "exhaustive", use_gpu |-> TRUE, camera_model |-> "PINHOLE",
      single_camera |-> TRUE, max_image_size |-> 3200,
      sift_max_num_features |-> 8192, num_threads |-> -1, sequential_overlap |-> 10 ]

\* FrameSamplingConfig() of schema.py
DefaultFrameSamplingConfig ==
    [ selection_method |-> "best-n", fps |-> 10, format |-> "jpg", width |-> 0,
      force_overwrite |-> FALSE, num_frames |-> 300, min_buffer |-> 3,
      batch_size |-> 5, batch_buffer |-> 2, outlier_window_size |-> 15,
      outlier_sensitivity |-> 50 ]

\* LichtfeldConfig() of schema.py
DefaultLichtfeldConfig ==
    [ iterations |-> 30000, resize_factor |-> "auto", strategy |-> "adc",
      max_cap |-> 1000000, headless |-> TRUE, gut |-> FALSE,
      ppisp_controller |-> FALSE, mip_filter |-> FALSE, eval |-> FALSE,
      save_eval_images |-> FALSE, test_every |-> 8 ]

\* No builder has been called.
InitBuilders ==
    /\ cfg = DefaultColmapConfig
    /\ sharp = [ input_type |-> "video", config |-> DefaultFrameSamplingConfig ]
    /\ cmd = <<>>
    /\ lf = DefaultLichtfeldConfig

\* No subprocess has been started.
NoOutcome == [ kind |-> "running", command |-> <<>>, returncode |-> 0, tail |-> <<>> ]
NoCapture == [ kind |-> "none", command |-> <<>>, returncode |-> 0, tail |-> <<>>,
               out |-> <<>> ]

RunnerIdle ==
    /\ proc = [ command |-> <<>>, out |-> <<>>, returncode |-> 0, tail_lines |-> 0,
                on_line |-> FALSE, raises_at |-> 0 ]
    /\ nread = 0
    /\ tail = <<>>
    /\ delivered = <<>>
    /\ outcome = NoOutcome
    /\ captured = NoCapture
    /\ child = "running"

\* Ticks of the wall clock in one second
TicksPerSecond == 2

\* time.strftime("%Y%m%d-%H%M%S"): the reading, to the second
Strftime(t) == t \div TicksPerSecond

\* The roots Workspace.create can produce within the clock's range
Roots == { WorkspaceRoot(Strftime(t)) : t \in 0..MaxTicks }

\* An empty jobs directory, no run started.
WorkspacesIdle ==
    /\ now = 0
    /\ jobs = [ r \in Roots |-> [ exists |-> FALSE, images |-> {} ] ]
    /\ created = <<>>

\* No video is being ingested.
FramesIdle ==
    /\ stems = <<>>
    /\ fi = 0
    /\ fj = 0
    /\ images_dir = {}
    /\ copied = 0

\* Resolvers: two Toolchain objects over one tools directory
Resolvers == {1, 2}

\* No resolver has been called; nothing is installed.
InstallIdle ==
    /\ tools_dir = [ micromamba |-> FALSE, env_marker |-> FALSE, env_colmap |-> FALSE,
                     install_dir |-> FALSE, official_marker |-> FALSE,
                     official_bat |-> FALSE ]
    /\ inst = [ i \in Resolvers |-> [ method |-> "none", pc |-> "idle", ret |-> "none" ] ]
    /\ done = [ env_created |-> FALSE, official_found |-> FALSE ]

\* No release has been asked for.
AssetsIdle ==
    /\ platform_tag = "linux-64"
    /\ assets = <<>>
    /\ chosen = [ done |-> FALSE, index |-> 0 ]

ServicesIdle == RunnerIdle /\ WorkspacesIdle /\ FramesIdle /\ InstallIdle /\ AssetsIdle

\* The resolver idle on a bare machine: Settings() defaults, nothing installed.
InitTool ==
    /\ settings = [ colmap_path |-> "unset", lichtfeld_path |-> "unset",
                    auto_install_tools |-> TRUE, colmap_source |-> "official",
                    colmap_latest |-> TRUE ]
    /\ host = [ system |-> "linux", colmap_on_path |-> FALSE,
                lichtfeld_on_path |-> "none", sharp_frames_on_path |-> FALSE ]
    /\ disk = [ micromamba |-> FALSE, env_marker |-> FALSE, env_colmap |-> FALSE,
                official_marker |-> FALSE, official_bat |-> FALSE ]
    /\ ret = [ call |-> "none", ret |-> "none", tool |-> NoTool ]
    /\ effects = <<>>
    /\ ncalls = 0
    /\ creates = 0
    /\ help = NoHelp
    /\ InitCache
    /\ InitBuilders

\* A path below the dataset directory is <<subdirectory, entry>>, an entry
\* <<name, number>>. What an earlier export or the user left at the dataset
\* path: an image the workspace does not hold, a second sparse model, a
\* file of its own.
StaleDataset ==
    { <<"images", <<"old", 0>>>>, <<"colmap", <<"sparse", 1>>>>, <<"notes", <<"old", 0>>>> }

\* A video file is named by its rank in name order. The orders in which
\* directory.iterdir() may yield n video files: here by name, ascending or
\* descending.
Listings(n) == { [ i \in 1..n |-> i ], [ i \in 1..n |-> n + 1 - i ] }

Init ==
    /\ config \in Configs
    /\ src \in [ videos : 0..MaxVideos, images : 0..MaxImages ]
    /\ (config.input_type = "video" => src.images = 0)
    /\ (config.input_type = "images" => src.videos = 0)
    /\ clock \in 1..MaxClock
    /\ pos = "validate"
    /\ entered = <<"Validate">>
    /\ events = <<>>
    /\ error = "none"
    /\ ws_exists = FALSE
    /\ out_exists = FALSE
    /\ images = 0
    /\ sparse0 = FALSE
    /\ dataset = FALSE
    /\ result = "none"
    /\ vid = 0
    /\ passed = <<>>
    /\ ci = 0
    /\ dataset_dir \in {{}, StaleDataset}
    /\ listing \in Listings(src.videos)
    /\ sampled = <<>>
    /\ InitTool
    /\ ServicesIdle

\* The workspace created before the configuration is validated.
WorkspaceCreatedFirst(valid) == TRUE

\* Workspace.create (line 53) and the mkdirs of lines 72-74 are reached only
\* when config.validate() (line 51) returned.
WorkspaceAfterValidate(valid) == valid

\* run, lines 51-77: validate, create the workspace and the output
\* directory, enter Ingest.
Validate ==
    /\ pos = "validate"
    /\ ws_exists' = WorkspaceAfterValidate(PipelineConfigValid(config))
    /\ out_exists' = WorkspaceAfterValidate(PipelineConfigValid(config))
    /\ IF ~PipelineConfigValid(config)
       THEN /\ Raise("ValidationError")
            /\ UNCHANGED <<entered, events>>
       ELSE /\ entered' = Append(entered, "Ingest")
            /\ events' = Append(events, StageEvent("Ingest"))
            /\ pos' = "ingest"
            /\ error' = error
    /\ UNCHANGED <<config, src, clock, images, sparse0, dataset, result, vid,
                   passed, ci, toolVars, serviceVars,
                   listing, sampled, dataset_dir>>

\* An ingest that goes on to Reconstruct whatever the count.
FinishIngestUnchecked(cnt, evs) ==
    /\ events' = evs \o <<LogEvent("info"), StageEvent("COLMAP")>>
    /\ entered' = Append(entered, "Reconstruct")
    /\ pos' = "colmap_exec"
    /\ error' = error

\* _ensure_images, then (run, lines 80-82 and 189-197) stage("COLMAP") and
\* the two mkdirs of _run_colmap. cnt: images in the workspace, evs: the
\* events up to here.
FinishIngest(cnt, evs) ==
    IF cnt = 0
    THEN /\ Raise("ValidationError")
         /\ events' = evs
         /\ entered' = entered
    ELSE /\ events' = evs \o <<LogEvent("info"), StageEvent("COLMAP")>>
         /\ entered' = Append(entered, "Reconstruct")
         /\ pos' = "colmap_exec"
         /\ error' = error

\* _ingest up to its first external command (lines 113-128, 158, 169-172).
IngestBegin ==
    /\ pos = "ingest"
    /\ IF config.input_type = "video"
       THEN IF ~config.frame_sampling.enabled \/ src.videos = 0
            THEN /\ Raise("ValidationError")
                 /\ UNCHANGED <<entered, events, images>>
            ELSE /\ events' = Append(events, LogEvent("info"))
                 /\ pos' = "sample_video"
                 /\ UNCHANGED <<entered, error, images>>
       ELSE IF config.frame_sampling.enabled
            THEN /\ pos' = "sample_dir"
                 /\ UNCHANGED <<entered, events, error, images>>
            ELSE /\ images' = src.images
                 /\ FinishIngest(src.images, Append(events, LogEvent("info")))
    /\ UNCHANGED <<config, src, clock, ws_exists, out_exists, sparse0, dataset,
                   result, vid, passed, ci, toolVars, serviceVars,
                   listing, sampled, dataset_dir>>

\* The three events of one sampler invocation: to_command, emit, runner.run.
SamplerEvents ==
    <<ResolveEvent("sharp_frames"), LogEvent("sharp_frames"), RunEvent("sharp_frames")>>

\* The videos taken in the order iterdir yields them.
ListVideosUnsorted(l) == l

\* _list_videos_in_dir: sorted(directory.iterdir()), the video files of it
ListVideos(l) == SortSeq(l, LAMBDA a, b : a < b)

\* One iteration of the video loop (lines 130-153); after the last one,
\* lines 154 and on. code: the sampler's exit code, k: the frames it left.
SampleVideo ==
    /\ pos = "sample_video"
    /\ vid < src.videos
    /\ passed' = Append(passed, NumFramesFor(config.frame_sampling, src.videos, vid))
    /\ sampled' = Append(sampled, ListVideos(listing)[vid + 1])
    /\ \E code \in ExitCodes, k \in 0..MaxImages :
         IF code # 0
         THEN /\ Raise("CommandFailedError")
              /\ events' = events \o SamplerEvents
              /\ UNCHANGED <<entered, images, vid>>
         ELSE /\ images' = images + k
              /\ vid' = vid + 1
              /\ IF vid + 1 = src.videos
                 THEN FinishIngest(images + k, events \o SamplerEvents)
                 ELSE /\ events' = events \o SamplerEvents
                      /\ UNCHANGED <<entered, pos, error>>
    /\ UNCHANGED <<config, src, clock, ws_exists, out_exists, sparse0, dataset,
                   result, ci, toolVars, serviceVars,
                   listing, dataset_dir>>

\* Image input with sampling enabled: one sampler run over the input
\* directory, into workspace.images_dir (lines 158-168).
SampleDir ==
    /\ pos = "sample_dir"
    /\ \E code \in ExitCodes, k \in 0..MaxImages :
         IF code # 0
         THEN /\ Raise("CommandFailedError")
              /\ events' = events \o SamplerEvents
              /\ UNCHANGED <<entered, images>>
         ELSE /\ images' = k
              /\ FinishIngest(k, events \o SamplerEvents)
    /\ UNCHANGED <<config, src, clock, ws_exists, out_exists, sparse0, dataset,
                   result, vid, passed, ci, toolVars, serviceVars,
                   listing, sampled, dataset_dir>>

(***************************************************************************)
(* pipeline.py: _run_colmap, _export_artifacts, _run_lichtfeld             *)
(***************************************************************************)
\* matcher_cmd: the subcommand chosen by cfg.matcher
MatcherCommand(matcher) ==
    IF matcher = "sequential" THEN "sequential_matcher" ELSE "exhaustive_matcher"

\* The mapper planned before the matcher.
ColmapCommandsMapperFirst(matcher) ==
    <<"feature_extractor", "mapper", MatcherCommand(matcher), "image_undistorter">>

\* cmds of _run_colmap, by subcommand
ColmapCommands(matcher) ==
    <<"feature_extractor", MatcherCommand(matcher), "mapper", "image_undistorter">>

\* What building cmds does, in order: every builder resolves the tool, and
\* feature_extractor_cmd and matcher_cmd probe their subcommand's options
\* (colmap_options resolves the tool again, then captures the help text).
BuilderEvents(matcher) ==
    << ResolveEvent("colmap"), ResolveEvent("colmap"), ProbeEvent("feature_extractor"),
       ResolveEvent("colmap"), ResolveEvent("colmap"), ProbeEvent(MatcherCommand(matcher)),
       ResolveEvent("colmap"),
       ResolveEvent("colmap") >>

\* A sanity check that asks for the trainer as well.
SanityResolutionsBoth == <<ResolveEvent("colmap"), ResolveEvent("lichtfeld")>>

\* "sanity: tool presence early" (lines 199-203) asks for the
\* reconstruction tool alone
SanityResolutions == <<ResolveEvent("colmap")>>

\* The sanity check at the head of _run_colmap
ColmapExec ==
    /\ pos = "colmap_exec"
    /\ events' = events \o SanityResolutions
    /\ \E r \in ResolveOutcomes :
         IF r = "ok"
         THEN pos' = "colmap_cmds" /\ error' = error
         ELSE Raise(r)
    /\ UNCHANGED <<config, src, clock, entered, ws_exists, out_exists, images,
                   sparse0, dataset, result, vid, passed, ci, toolVars, serviceVars,
                   listing, sampled, dataset_dir>>

\* cmds = [...] (lines 205-210): the four builders run before any command;
\* f: the resolution that raises, 0 if none does.
ColmapBuild ==
    /\ pos = "colmap_cmds"
    /\ LET L == BuilderEvents(config.matcher) IN
       \E f \in 0..Len(L) :
         IF f = 0
         THEN /\ events' = events \o L
              /\ pos' = "colmap_run"
              /\ error' = error
         ELSE /\ L[f] = ResolveEvent("colmap")
              /\ events' = events \o SubSeq(L, 1, f)
              /\ \E r \in ResolveOutcomes \ {"ok"} : Raise(r)
    /\ UNCHANGED <<config, src, clock, entered, ws_exists, out_exists, images,
                   sparse0, dataset, result, vid, passed, ci, toolVars, serviceVars,
                   listing, sampled, dataset_dir>>

\* One iteration of "for cmd, env in cmds" (lines 212-214); after the last
\* one the sparse-model check (216-220) and stage("Export"). code: the exit
\* code, made: whether the mapper left sparse/0.
ColmapRun ==
    /\ pos = "colmap_run"
    /\ ci < Len(ColmapCommands(config.matcher))
    /\ LET name == ColmapCommands(config.matcher)[ci + 1]
           evs == events \o <<LogEvent(name), RunEvent(name)>>
       IN \E code \in ExitCodes, made \in BOOLEAN :
            IF code # 0
            THEN /\ Raise("CommandFailedError")
                 /\ events' = evs
                 /\ UNCHANGED <<entered, sparse0, ci>>
            ELSE /\ ci' = ci + 1
                 /\ sparse0' = (sparse0 \/ (name = "mapper" /\ made))
                 /\ IF ci + 1 < Len(ColmapCommands(config.matcher))
                    THEN /\ events' = evs
                         /\ UNCHANGED <<entered, pos, error>>
                    ELSE IF ~sparse0
                         THEN /\ Raise("ValidationError")
                              /\ events' = evs
                              /\ entered' = entered
                         ELSE /\ events' = Append(evs, StageEvent("Export"))
                              /\ entered' = Append(entered, "Export")
                              /\ pos' = "export"
                              /\ error' = error
    /\ UNCHANGED <<config, src, clock, ws_exists, out_exists, images, dataset,
                   result, vid, passed, toolVars, serviceVars,
                   listing, sampled, dataset_dir>>

\* The files of workspace.images_dir
WorkspaceImages(n) == { <<"img", k>> : k \in 1..n }

\* The tree below workspace.colmap_dir once the four commands have run
ColmapTree(s0) ==
    { <<"database", 0>>, <<"undistorted", 0>> }
      \cup (IF s0 THEN { <<"sparse", 0>> } ELSE {})

\* What is at the dataset path left in place.
ClearDatasetKept(d) == d

\* Lines 227-229: rmtree(dataset_dir) when it exists, then mkdir
ClearDataset(d) == {}

\* shutil.copytree(files, dataset_dir / sub, dirs_exist_ok=True)
CopyTree(files, sub, d) == d \cup { <<sub, f>> : f \in files }

\* _export_artifacts, then stage("LichtFeld Studio"); ok: the copies went
\* through (a filesystem error propagates as it is, after the first copy
\* or before it).
ExportArtifacts ==
    /\ pos = "export"
    /\ \E ok \in BOOLEAN :
         IF ok
         THEN /\ dataset' = TRUE
              /\ dataset_dir' = CopyTree(ColmapTree(sparse0), "colmap",
                                  CopyTree(WorkspaceImages(images), "images",
                                           ClearDataset(dataset_dir)))
              /\ events' = events \o <<LogEvent("info"), LogEvent("info"),
                                       StageEvent("LichtFeld Studio")>>
              /\ entered' = Append(entered, "Train")
              /\ pos' = "lichtfeld_exec"
              /\ error' = error
         ELSE /\ Raise("OSError")
              /\ dataset_dir' \in { ClearDataset(dataset_dir),
                                    CopyTree(WorkspaceImages(images), "images",
                                             ClearDataset(dataset_dir)) }
              /\ UNCHANGED <<dataset, events, entered>>
    /\ UNCHANGED <<config, src, clock, ws_exists, out_exists, images, sparse0,
                   result, vid, passed, ci, toolVars, serviceVars,
                   listing, sampled>>

\* args.to_command(toolchain) of _run_lichtfeld: the trainer is resolved here.
LichtfeldExec ==
    /\ pos = "lichtfeld_exec"
    /\ events' = Append(events, ResolveEvent("lichtfeld"))
    /\ \E r \in ResolveOutcomes :
         IF r = "ok"
         THEN pos' = "lichtfeld_run" /\ error' = error
         ELSE Raise(r)
    /\ UNCHANGED <<config, src, clock, entered, ws_exists, out_exists, images,
                   sparse0, dataset, result, vid, passed, ci, toolVars, serviceVars,
                   listing, sampled, dataset_dir>>

\* The workspace removed whatever the trainer's exit code (a finally clause).
WorkspaceAfterTrainFinally(keep, code) ==
    IF ~keep THEN FALSE ELSE ws_exists

\* The workspace never removed.
WorkspaceAfterTrainKept(keep, code) == ws_exists

\* Lines 90-94: rmtree(workspace.root) is reached only when the trainer's
\* runner.run returned, and runs only without keep_intermediates.
WorkspaceAfterTrain(keep, code) ==
    IF code = 0 /\ ~keep THEN FALSE ELSE ws_exists

\* PipelineResult(workspace_dir=workspace.root, output_dir=output_root / workspace.root.name)
PipelineResult(root, output_dir) ==
    [ workspace_dir |-> root, output_dir |-> <<output_dir, PathName(root)>> ]

\* The trainer run and the end of run (lines 247-248, 92-96).
LichtfeldRun ==
    /\ pos = "lichtfeld_run"
    /\ \E code \in ExitCodes :
         /\ ws_exists' = WorkspaceAfterTrain(config.keep_intermediates, code)
         /\ IF code # 0
            THEN /\ Raise("CommandFailedError")
                 /\ events' = events \o <<LogEvent("lichtfeld"), RunEvent("lichtfeld")>>
                 /\ UNCHANGED <<entered, result>>
            ELSE /\ events' = events \o <<LogEvent("lichtfeld"), RunEvent("lichtfeld"),
                                          LogEvent("Done.")>>
                 /\ entered' = Append(entered, "Done")
                 /\ result' = PipelineResult(WorkspaceRoot(clock), config.output_dir)
                 /\ pos' = "returned"
                 /\ error' = error
    /\ UNCHANGED <<config, src, clock, out_exists, images, sparse0, dataset,
                   vid, passed, ci, toolVars, serviceVars,
                   listing, sampled, dataset_dir>>

Next ==
    \/ Validate
    \/ IngestBegin
    \/ SampleVideo
    \/ SampleDir
    \/ ColmapExec
    \/ ColmapBuild
    \/ ColmapRun
    \/ ExportArtifacts
    \/ LichtfeldExec
    \/ LichtfeldRun

Spec == Init /\ [][Next]_vars

(***************************************************************************)
(* toolchain.py: the resolver. A method is the set of outcomes it can have *)
(* from tools directory d: [ret, disk, effects, tool], ret being "ok" or   *)
(* the exception raised, effects what it did in order (PATH lookups, HTTP  *)
(* requests, downloads, extractions, commands run, marker writes).         *)
(***************************************************************************)
Ok(d, effs, tool) == [ ret |-> "ok", disk |-> d, effects |-> effs, tool |-> tool ]

Fail(e, d, effs) == [ ret |-> e, disk |-> d, effects |-> effs, tool |-> NoTool ]

\* An outcome with the effects that came before it
After(effs, out) == [ out EXCEPT !.effects = effs \o @ ]

Nt == host.system = "windows"

\* _platform_tag raises for a system that is none of the three
PlatformSupported == host.system \in {"windows", "darwin", "linux"}

\* ensure_micromamba
EnsureMicromamba(d) ==
    IF d.micromamba THEN { Ok(d, <<>>, NoTool) }
    ELSE IF ~settings.auto_install_tools THEN { Fail("ToolNotFoundError", d, <<>>) }
    ELSE IF ~PlatformSupported THEN { Fail("ToolNotFoundError", d, <<>>) }
    ELSE { Fail("Exception", d, <<"download:micromamba">>),
           Fail("Exception", d, <<"download:micromamba", "extract:micromamba">>),
           Ok([d EXCEPT !.micromamba = TRUE],
              <<"download:micromamba", "extract:micromamba">>, NoTool) }

\* ensure_env from the auto_install_tools check on (lines 108-123): the
\* create command installs colmap into the environment, then the marker is
\* written.
EnvCreate(d) ==
    IF ~settings.auto_install_tools THEN { Fail("ToolNotFoundError", d, <<>>) }
    ELSE UNION {
           IF m.ret # "ok" THEN { m }
           ELSE { Fail("CommandFailedError", m.disk,
                       m.effects \o <<"run:micromamba create">>),
                  Ok([m.disk EXCEPT !.env_marker = TRUE, !.env_colmap = TRUE],
                     m.effects \o <<"run:micromamba create", "write:env_marker">>,
                     NoTool) }
           : m \in EnsureMicromamba(d) }

\* An ensure_env that does not look at the marker.
EnsureEnvIgnoresMarker(d) == EnvCreate(d)

\* ensure_env("colmap", ["colmap"]): the marker alone decides (lines 103-106)
EnsureEnv(d) ==
    IF d.env_marker THEN { Ok(d, <<>>, NoTool) }
    ELSE EnvCreate(d)

\* ensure_colmap_official from the download on (lines 173-186), the marker
\* being absent or just removed.
ColmapOfficialInstall(d) ==
    LET wiped == [d EXCEPT !.official_bat = FALSE] IN
    { Fail("Exception", d, <<"download:colmap">>),
      Fail("Exception", wiped, <<"download:colmap", "extract:colmap">>),
      Fail("ToolNotFoundError", wiped, <<"download:colmap", "extract:colmap">>),
      Ok([d EXCEPT !.official_bat = TRUE, !.official_marker = TRUE],
         <<"download:colmap", "extract:colmap", "write:official_marker">>,
         [ exe |-> "COLMAP.bat", prefix |-> <<>>, env_path |-> FALSE ]) }

\* ensure_colmap_official from the marker check on (lines 163-186)
ColmapOfficialMarker(d) ==
    IF d.official_marker
    THEN IF d.official_bat
         THEN { Ok(d, <<>>, [ exe |-> "COLMAP.bat", prefix |-> <<>>, env_path |-> FALSE ]) }
         ELSE { After(<<"unlink:official_marker">>, out) :
                  out \in ColmapOfficialInstall([d EXCEPT !.official_marker = FALSE]) }
    ELSE ColmapOfficialInstall(d)

\* ensure_colmap_official
EnsureColmapOfficial(d) ==
    IF ~Nt THEN { Fail("ToolNotFoundError", d, <<>>) }
    ELSE IF ~settings.auto_install_tools THEN { Fail("ToolNotFoundError", d, <<>>) }
    ELSE IF settings.colmap_latest
         THEN { Fail("Exception", d, <<"http:colmap_latest">>) }
              \cup { After(<<"http:colmap_latest">>, out) : out \in ColmapOfficialMarker(d) }
         ELSE ColmapOfficialMarker(d)

\* colmap_exec, step 4: the conda-forge environment (lines 215-223)
ColmapCondaStep(d) ==
    UNION {
      IF e.ret # "ok" THEN { e }
      ELSE { IF m.ret # "ok"
             THEN After(e.effects, m)
             ELSE Ok(m.disk, e.effects \o m.effects,
                     [ exe |-> "colmap",
                       prefix |-> <<"micromamba", "run", "-p", "envs/colmap", "colmap">>,
                       env_path |-> TRUE ])
             : m \in EnsureMicromamba(e.disk) }
      : e \in EnsureEnv(d) }

\* colmap_exec, step 3 and on: the official release when settings ask for
\* it, its ToolNotFoundError caught with auto_install_tools (lines 206-223)
ColmapInstallSteps(d) ==
    IF settings.colmap_source = "official"
    THEN UNION {
           IF o.ret = "ok"
           THEN { [ o EXCEPT !.tool.prefix = <<"cmd.exe", "/d", "/s", "/c", "COLMAP.bat">> ] }
           ELSE IF o.ret = "ToolNotFoundError" /\ settings.auto_install_tools
                THEN { After(o.effects, c) : c \in ColmapCondaStep(o.disk) }
                ELSE { o }
           : o \in EnsureColmapOfficial(d) }
    ELSE ColmapCondaStep(d)

\* The prefix of a tool found at path exe: a .bat or .cmd on Windows runs
\* through cmd.exe /c.
WrappedPrefix(exe, bat) ==
    IF Nt /\ bat THEN <<"cmd.exe", "/c", exe>> ELSE <<exe>>

\* The suffixes a found path can have: is it a .bat/.cmd or not
Suffixes == BOOLEAN

\* A PATH hit that does not end the chain.
ColmapPathStepIgnoresHit(d) ==
    { After(<<"which:colmap">>, out) : out \in ColmapInstallSteps(d) }

\* colmap_exec, step 2 and on: which("colmap") (lines 198-204)
ColmapPathStep(d) ==
    IF host.colmap_on_path
    THEN { Ok(d, <<"which:colmap">>,
              [ exe |-> "which:colmap", prefix |-> WrappedPrefix("which:colmap", bat),
                env_path |-> FALSE ]) : bat \in Suffixes }
    ELSE { After(<<"which:colmap">>, out) : out \in ColmapInstallSteps(d) }

\* A configured path that is missing treated like no configured path.
ColmapExplicitStepFallsBack(d) ==
    IF settings.colmap_path = "exists"
    THEN { Ok(d, <<>>,
              [ exe |-> "tool_paths.colmap",
                prefix |-> WrappedPrefix("tool_paths.colmap", bat),
                env_path |-> FALSE ]) : bat \in Suffixes }
    ELSE ColmapPathStep(d)

\* colmap_exec, step 1 with tool_paths.colmap set (lines 190-196)
ColmapExplicitStep(d) ==
    IF settings.colmap_path = "exists"
    THEN { Ok(d, <<>>,
              [ exe |-> "tool_paths.colmap",
                prefix |-> WrappedPrefix("tool_paths.colmap", bat),
                env_path |-> FALSE ]) : bat \in Suffixes }
    ELSE { Fail("ToolNotFoundError", d, <<>>) }

\* colmap_exec
colmap_exec(d) ==
    IF settings.colmap_path # "unset"
    THEN ColmapExplicitStep(d)
    ELSE ColmapPathStep(d)

\* A line of help output: what stands before the first "--" of the line,
\* and the option name after it.
OptionLine(n) == [ lead |-> "  ", name |-> n ]

\* A line that names an option in running text
ProseLine(n) == [ lead |-> "see ", name |-> n ]

\* What \s* of _COLMAP_OPT_RE matches before the "--"
Whitespace == {"", "  "}

\* colmap_options, lines 238-244: the names of the lines that start, after
\* optional whitespace, with "--"
ParseOptions(out) ==
    { out[i].name : i \in { j \in 1..Len(out) : out[j].lead \in Whitespace } }

\* The help command of a subcommand, as an effect
HelpRun(c) ==
    CASE c = "feature_extractor" -> "run:colmap feature_extractor -h"
      [] c = "exhaustive_matcher" -> "run:colmap exhaustive_matcher -h"
      [] c = "sequential_matcher" -> "run:colmap sequential_matcher -h"

\* A cache in which an empty set counts as no entry.
CacheHitNonEmpty(cache, c) == c \in DOMAIN cache /\ cache[c] # {}

\* colmap_options, lines 226-228: cached is not None
CacheHit(cache, c) == c \in DOMAIN cache

\* dict assignment of line 246
CacheStore(cache, c, opts) ==
    [ x \in DOMAIN cache \cup {c} |-> IF x = c THEN opts ELSE cache[x] ]

\* How run_capture of the help command can end for the tool of outcome o:
\* the process cannot be started (OSError), exits nonzero
\* (CommandFailedError), or exits 0 with its output. An environment that
\* holds no colmap cannot print help.
HelpExits(o) ==
    IF o.tool.env_path /\ ~o.disk.env_colmap
    THEN {"OSError", "nonzero"}
    ELSE {"OSError", "nonzero", "zero"}

\* colmap_options, lines 231-247, for the resolved tool of outcome o
ProbeOptions(c, o, cache) ==
    { LET opts == IF x = "zero" THEN ParseOptions(help[c]) ELSE {} IN
      [ ret |-> "ok", disk |-> o.disk, effects |-> Append(o.effects, HelpRun(c)),
        opts |-> opts, cache |-> CacheStore(cache, c, opts), exit |-> x ]
      : x \in HelpExits(o) }

\* colmap_options: colmap_exec is called outside the try (line 230), what
\* it raises leaves colmap_options and nothing is cached.
colmap_options(c, d, cache) ==
    IF CacheHit(cache, c)
    THEN { [ ret |-> "ok", disk |-> d, effects |-> <<>>, opts |-> cache[c],
             cache |-> cache, exit |-> "cached" ] }
    ELSE UNION {
           IF o.ret # "ok"
           THEN { [ ret |-> o.ret, disk |-> o.disk, effects |-> o.effects,
                    opts |-> {}, cache |-> cache, exit |-> "unresolved" ] }
           ELSE ProbeOptions(c, o, cache)
           : o \in colmap_exec(d) }

\* _download_lichtfeld: the platform tag, the release query, the asset
\* choice, the download, the extraction, the search for the executable.
DownloadLichtfeld(d) ==
    IF ~PlatformSupported THEN { Fail("ToolNotFoundError", d, <<>>) }
    ELSE { Fail("Exception", d, <<"http:lichtfeld_release">>),
           Fail("ToolNotFoundError", d, <<"http:lichtfeld_release">>),
           Fail("Exception", d, <<"http:lichtfeld_release", "download:lichtfeld">>),
           Fail("Exception", d, <<"http:lichtfeld_release", "download:lichtfeld",
                                  "extract:lichtfeld">>),
           Fail("ToolNotFoundError", d, <<"http:lichtfeld_release", "download:lichtfeld",
                                          "extract:lichtfeld">>),
           Ok(d, <<"http:lichtfeld_release", "download:lichtfeld", "extract:lichtfeld">>,
              [ exe |-> "extracted/LichtFeld-Studio",
                prefix |-> <<"extracted/LichtFeld-Studio">>, env_path |-> FALSE ]) }

\* A trainer lookup that downloads whatever the settings say.
LichtfeldPathStepInstalls(d) ==
    IF host.lichtfeld_on_path = "LichtFeld-Studio"
    THEN { Ok(d, <<"which:LichtFeld-Studio">>,
              [ exe |-> "which:LichtFeld-Studio",
                prefix |-> <<"which:LichtFeld-Studio">>, env_path |-> FALSE ]) }
    ELSE IF host.lichtfeld_on_path = "LichtFeld-Studio.exe"
    THEN { Ok(d, <<"which:LichtFeld-Studio", "which:LichtFeld-Studio.exe">>,
              [ exe |-> "which:LichtFeld-Studio.exe",
                prefix |-> <<"which:LichtFeld-Studio.exe">>, env_path |-> FALSE ]) }
    ELSE { After(<<"which:LichtFeld-Studio", "which:LichtFeld-Studio.exe">>, out) :
             out \in DownloadLichtfeld(d) }

\* lichtfeld_exec, step 2 and on: the two names looked up on PATH, then
\* the download (lines 272-283)
LichtfeldPathStep(d) ==
    IF host.lichtfeld_on_path = "LichtFeld-Studio"
    THEN { Ok(d, <<"which:LichtFeld-Studio">>,
              [ exe |-> "which:LichtFeld-Studio",
                prefix |-> <<"which:LichtFeld-Studio">>, env_path |-> FALSE ]) }
    ELSE IF host.lichtfeld_on_path = "LichtFeld-Studio.exe"
    THEN { Ok(d, <<"which:LichtFeld-Studio", "which:LichtFeld-Studio.exe">>,
              [ exe |-> "which:LichtFeld-Studio.exe",
                prefix |-> <<"which:LichtFeld-Studio.exe">>, env_path |-> FALSE ]) }
    ELSE IF ~settings.auto_install_tools
    THEN { Fail("ToolNotFoundError", d,
                <<"which:LichtFeld-Studio", "which:LichtFeld-Studio.exe">>) }
    ELSE { After(<<"which:LichtFeld-Studio", "which:LichtFeld-Studio.exe">>, out) :
             out \in DownloadLichtfeld(d) }

\* lichtfeld_exec
lichtfeld_exec(d) ==
    IF settings.lichtfeld_path = "exists"
    THEN { Ok(d, <<>>, [ exe |-> "tool_paths.lichtfeld",
                         prefix |-> <<"tool_paths.lichtfeld">>, env_path |-> FALSE ]) }
    ELSE IF settings.lichtfeld_path = "missing"
    THEN { Fail("ToolNotFoundError", d, <<>>) }
    ELSE LichtfeldPathStep(d)

\* A Toolchain built over any settings, host and tools directory.
InitResolver ==
    /\ settings \in [ colmap_path : {"unset", "exists", "missing"},
                      lichtfeld_path : {"unset", "exists", "missing"},
                      auto_install_tools : BOOLEAN,
                      colmap_source : {"official", "conda"},
                      colmap_latest : BOOLEAN ]
    /\ host \in [ system : {"windows", "darwin", "linux", "other"},
                  colmap_on_path : BOOLEAN,
                  lichtfeld_on_path : {"none", "LichtFeld-Studio", "LichtFeld-Studio.exe"},
                  sharp_frames_on_path : {FALSE} ]
    /\ disk \in [ micromamba : BOOLEAN, env_marker : BOOLEAN, env_colmap : BOOLEAN,
                  official_marker : BOOLEAN, official_bat : BOOLEAN ]
    /\ ret = [ call |-> "none", ret |-> "none", tool |-> NoTool ]
    /\ effects = <<>>
    /\ ncalls = 0
    /\ creates = 0
    /\ InitCache
    /\ InitBuilders

\* No pipeline run is in progress.
InitIdle ==
    /\ config = [ input_type |-> "images", input_ok |-> TRUE, output_ok |-> TRUE,
                  frame_sampling |-> [ enabled |-> FALSE, selection_method |-> "best-n",
                                       num_frames |-> 1, params_ok |-> TRUE ],
                  colmap_ok |-> TRUE, matcher |-> "exhaustive", lichtfeld_ok |-> TRUE,
                  keep_intermediates |-> TRUE, output_dir |-> "out" ]
    /\ src = [ videos |-> 0, images |-> 0 ]
    /\ clock = 1
    /\ pos = "validate"
    /\ entered = <<"Validate">>
    /\ events = <<>>
    /\ error = "none"
    /\ ws_exists = FALSE
    /\ out_exists = FALSE
    /\ images = 0
    /\ sparse0 = FALSE
    /\ dataset = FALSE
    /\ result = "none"
    /\ vid = 0
    /\ passed = <<>>
    /\ ci = 0
    /\ dataset_dir = {}
    /\ listing = <<>>
    /\ sampled = <<>>

\* How many times effs holds e
Count(e, effs) == Cardinality({ i \in 1..Len(effs) : effs[i] = e })

\* A resolver method returns or raises with outcome out.
Return(name, out) ==
    /\ ncalls' = ncalls + 1
    /\ creates' = creates + Count("run:micromamba create", out.effects)
    /\ ret' = [ call |-> name, ret |-> out.ret, tool |-> out.tool ]
    /\ disk' = out.disk
    /\ effects' = out.effects
    /\ UNCHANGED <<settings, host, help, colmap_options_cache, help_runs, probe,
                   cfg, sharp, cmd, lf, pipeVars,
                   serviceVars>>

CallColmapExec ==
    /\ ncalls < MaxCalls
    /\ \E out \in colmap_exec(disk) : Return("colmap_exec", out)

CallLichtfeldExec ==
    /\ ncalls < MaxCalls
    /\ \E out \in lichtfeld_exec(disk) : Return("lichtfeld_exec", out)

\* ensure_env("colmap", ["colmap"]) called on its own
CallEnsureEnv ==
    /\ ncalls < MaxCalls
    /\ \E out \in EnsureEnv(disk) : Return("ensure_env", out)

\* ensure_micromamba called on its own
CallEnsureMicromamba ==
    /\ ncalls < MaxCalls
    /\ \E out \in EnsureMicromamba(disk) : Return("ensure_micromamba", out)

ToolInit == InitResolver /\ InitIdle /\ help = NoHelp /\ ServicesIdle

NextTool ==
    \/ CallColmapExec
    \/ CallLichtfeldExec
    \/ CallEnsureEnv
    \/ CallEnsureMicromamba

SpecTool == ToolInit /\ [][NextTool]_vars

\* Two installed colmaps by their help output: an older one whose matchers
\* list no option at the start of a line, a newer one that lists options
\* for every subcommand.
ProbeHelps ==
    { [ c \in Subcommands |->
          IF c = "feature_extractor"
          THEN << OptionLine("SiftExtraction.use_gpu"),
                  ProseLine("FeatureExtraction.use_gpu") >>
          ELSE << ProseLine("SiftMatching.use_gpu") >> ],
      [ c \in Subcommands |->
          IF c = "feature_extractor"
          THEN << OptionLine("FeatureExtraction.use_gpu"),
                  OptionLine("SiftExtraction.max_num_features") >>
          ELSE IF c = "sequential_matcher"
          THEN << OptionLine("FeatureMatching.use_gpu"),
                  OptionLine("SequentialMatching.overlap") >>
          ELSE << OptionLine("FeatureMatching.use_gpu") >> ] }

\* A Toolchain on Windows or Linux over any colmap settings with a pinned
\* release version and any tools directory, the trainer left aside.
ProbeInit ==
    /\ InitResolver
    /\ InitIdle
    /\ ServicesIdle
    /\ settings.lichtfeld_path = "unset"
    /\ ~settings.colmap_latest
    /\ host.lichtfeld_on_path = "none"
    /\ host.system \in {"windows", "linux"}
    /\ help \in ProbeHelps

\* colmap_options(c) returns or raises with outcome out.
ReturnOptions(c, out) ==
    /\ ncalls' = ncalls + 1
    /\ creates' = creates + Count("run:micromamba create", out.effects)
    /\ ret' = [ call |-> "colmap_options", ret |-> out.ret, tool |-> NoTool ]
    /\ disk' = out.disk
    /\ effects' = out.effects
    /\ colmap_options_cache' = out.cache
    /\ help_runs' = [ help_runs EXCEPT ![c] = @ + Count(HelpRun(c), out.effects) ]
    /\ probe' = [ cmd |-> c, opts |-> out.opts, exit |-> out.exit ]
    /\ UNCHANGED <<settings, host, help, cfg, sharp, cmd, lf, pipeVars,
                   serviceVars>>

CallColmapOptions ==
    /\ ncalls < MaxCalls
    /\ \E c \in Subcommands :
          \E out \in colmap_options(c, disk, colmap_options_cache) :
             ReturnOptions(c, out)

NextProbe == CallColmapOptions

SpecProbe == ProbeInit /\ [][NextProbe]_vars

(***************************************************************************)
(* tools/colmap.py, tools/sharp_frames.py: the command builders. A command *)
(* is a sequence of tokens, a token the sequence of the pieces its string  *)
(* is put together from: <<"--", name>> for f"--{name}", the digits for    *)
(* str(n).                                                                 *)
(***************************************************************************)
DecimalDigit == <<"0", "1", "2", "3", "4", "5", "6", "7", "8", "9">>

RECURSIVE Digits(_)
Digits(n) ==
    IF n < 10 THEN << DecimalDigit[n + 1] >>
    ELSE Digits(n \div 10) \o << DecimalDigit[(n % 10) + 1] >>

\* str(n) of an int
Str(n) == IF n < 0 THEN <<"-">> \o Digits(-n) ELSE Digits(n)

\* A token that is one string
Tok(s) == << s >>

\* f"--{name}"
Flag(name) == << "--", name >>

\* "1" if b else "0"
BoolArg(b) == IF b THEN Tok("1") ELSE Tok("0")

\* [*tool.prefix]
PrefixTokens(prefix) == [ i \in 1..Len(prefix) |-> Tok(prefix[i]) ]

\* What _pick_option returns when no candidate is an option
None == "None"

\* The last candidate that is an option.
pick_option_last(options, candidates) ==
    LET hits == { i \in 1..Len(candidates) : candidates[i] \in options } IN
    IF hits = {} THEN None
    ELSE candidates[CHOOSE i \in hits : \A j \in hits : j <= i]

\* _pick_option: the first candidate, in the order of the list, that is an
\* option
pick_option(options, candidates) ==
    LET hits == { i \in 1..Len(candidates) : candidates[i] \in options } IN
    IF hits = {} THEN None
    ELSE candidates[CHOOSE i \in hits : \A j \in hits : i <= j]

\* A concern emitted under its first name when no name is an option.
ConcernFlagGuessed(options, candidates, value) ==
    LET opt == pick_option(options, candidates) IN
    IF opt # None THEN << Flag(opt), value >> ELSE << Flag(candidates[1]), value >>

\* opt = _pick_option(opts, candidates); if opt: cmd += [f"--{opt}", value]
ConcernFlag(options, candidates, value) ==
    LET opt == pick_option(options, candidates) IN
    IF opt # None THEN << Flag(opt), value >> ELSE <<>>

\* feature_extractor_cmd from the resolved prefix and the probed options
feature_extractor_cmd(prefix, opts, c) ==
    PrefixTokens(prefix)
    \o << Tok("feature_extractor"),
          Flag("database_path"), Tok("database.db"),
          Flag("image_path"), Tok("images"),
          Flag("ImageReader.camera_model"), Tok(c.camera_model),
          Flag("ImageReader.single_camera"), BoolArg(c.single_camera) >>
    \o ConcernFlag(opts, <<"FeatureExtraction.use_gpu", "SiftExtraction.use_gpu">>,
                   BoolArg(c.use_gpu))
    \o ConcernFlag(opts, <<"FeatureExtraction.max_image_size",
                           "SiftExtraction.max_image_size">>, Str(c.max_image_size))
    \o ConcernFlag(opts, <<"FeatureExtraction.num_threads",
                           "SiftExtraction.num_threads">>, Str(c.num_threads))
    \o (IF "SiftExtraction.max_num_features" \in opts
        THEN << Flag("SiftExtraction.max_num_features"), Str(c.sift_max_num_features) >>
        ELSE <<>>)

\* The subcommand matcher_cmd probes and runs
MatcherSubcommand(c) ==
    IF c.matcher = "sequential" THEN "sequential_matcher" ELSE "exhaustive_matcher"

\* matcher_cmd from the resolved prefix and the probed options
matcher_cmd(prefix, opts, c) ==
    PrefixTokens(prefix)
    \o << Tok(MatcherSubcommand(c)), Flag("database_path"), Tok("database.db") >>
    \o ConcernFlag(opts, <<"FeatureMatching.use_gpu", "SiftMatching.use_gpu">>,
                   BoolArg(c.use_gpu))
    \o (IF c.matcher = "sequential" /\ "SequentialMatching.overlap" \in opts
        THEN << Flag("SequentialMatching.overlap"), Str(c.sequential_overlap) >>
        ELSE <<>>)

\* The parameter pairs of all three methods, whatever the method.
MethodFlagsAll(c) ==
    << Flag("num-frames"), Str(c.num_frames), Flag("min-buffer"), Str(c.min_buffer),
       Flag("batch-size"), Str(c.batch_size), Flag("batch-buffer"), Str(c.batch_buffer),
       Flag("outlier-window-size"), Str(c.outlier_window_size),
       Flag("outlier-sensitivity"), Str(c.outlier_sensitivity) >>

\* SharpFramesArgs.to_command, lines 33-43: the pair of the selected method
MethodFlags(c) ==
    IF c.selection_method = "best-n"
    THEN << Flag("num-frames"), Str(c.num_frames), Flag("min-buffer"), Str(c.min_buffer) >>
    ELSE IF c.selection_method = "batched"
    THEN << Flag("batch-size"), Str(c.batch_size),
            Flag("batch-buffer"), Str(c.batch_buffer) >>
    ELSE IF c.selection_method = "outlier-removal"
    THEN << Flag("outlier-window-size"), Str(c.outlier_window_size),
            Flag("outlier-sensitivity"), Str(c.outlier_sensitivity) >>
    ELSE <<>>

\* SharpFramesArgs.to_command from the resolved prefix
to_command(prefix, a) ==
    PrefixTokens(prefix)
    \o << Tok("input_path"), Tok("output_dir"),
          Flag("selection-method"), Tok(a.config.selection_method) >>
    \o (IF a.input_type = "video" THEN << Flag("fps"), Str(a.config.fps) >> ELSE <<>>)
    \o << Flag("format"), Tok(a.config.format) >>
    \o (IF a.config.width # 0 THEN << Flag("width"), Str(a.config.width) >> ELSE <<>>)
    \o (IF a.config.force_overwrite THEN << Flag("force-overwrite") >> ELSE <<>>)
    \o MethodFlags(a.config)

\* Every toggle flag, whatever the toggles hold.
ToggleFlagsAll(c) ==
    << Flag("gut"), Flag("ppisp-controller"), Flag("enable-mip"), Flag("headless"),
       Flag("eval"), Flag("save-eval-images") >>

\* Lines 38-49 of tools/lichtfeld.py: one flag per enabled toggle
ToggleFlags(c) ==
    (IF c.gut THEN << Flag("gut") >> ELSE <<>>)
    \o (IF c.ppisp_controller THEN << Flag("ppisp-controller") >> ELSE <<>>)
    \o (IF c.mip_filter THEN << Flag("enable-mip") >> ELSE <<>>)
    \o (IF c.headless THEN << Flag("headless") >> ELSE <<>>)
    \o (IF c.eval THEN << Flag("eval") >> ELSE <<>>)
    \o (IF c.save_eval_images THEN << Flag("save-eval-images") >> ELSE <<>>)

\* LichtfeldTrainArgs.to_command from the resolved prefix
lichtfeld_to_command(prefix, c) ==
    PrefixTokens(prefix)
    \o << Flag("data-path"), Tok("data_path"), Flag("output-path"), Tok("output_path"),
          Flag("iter"), Str(c.iterations), Flag("resize_factor"), Tok(c.resize_factor),
          Flag("strategy"), Tok(c.strategy), Flag("max-cap"), Str(c.max_cap),
          Flag("train"), Flag("no-splash") >>
    \o ToggleFlags(c)
    \o (IF c.test_every # 0 THEN << Flag("test-every"), Str(c.test_every) >> ELSE <<>>)

\* sharp_frames_exe: sharp-frames from PATH, else python -m sharp_frames
sharp_frames_exe ==
    IF host.sharp_frames_on_path
    THEN [ exe |-> "which:sharp-frames", prefix |-> <<"which:sharp-frames">>,
           env_path |-> FALSE ]
    ELSE [ exe |-> "sys.executable",
           prefix |-> <<"sys.executable", "-m", "sharp_frames">>, env_path |-> FALSE ]

\* The option names the feature extractor has had, and the matchers
ExtractionOptions ==
    << "FeatureExtraction.use_gpu", "SiftExtraction.use_gpu",
       "FeatureExtraction.max_image_size", "SiftExtraction.max_image_size",
       "FeatureExtraction.num_threads", "SiftExtraction.num_threads",
       "SiftExtraction.max_num_features" >>

MatchingOptions ==
    << "FeatureMatching.use_gpu", "SiftMatching.use_gpu", "SequentialMatching.overlap" >>

\* A help output listing the names of order that are in S, one a line
HelpListing(S, order) ==
    LET listed == SelectSeq(order, LAMBDA n : n \in S) IN
    [ i \in 1..Len(listed) |-> OptionLine(listed[i]) ]

\* A colmap found on PATH or not found at all, installation off, as the
\* builders' callers set the resolver up; the job varies in what one of
\* the builders reads: the feature extractor's options and configuration,
\* the matchers', the sampler's arguments, or the trainer's configuration.
BuildInit ==
    /\ InitIdle
    /\ ServicesIdle
    /\ InitCache
    /\ settings = [ colmap_path |-> "unset", lichtfeld_path |-> "unset",
                    auto_install_tools |-> FALSE, colmap_source |-> "official",
                    colmap_latest |-> TRUE ]
    /\ disk = [ micromamba |-> FALSE, env_marker |-> FALSE, env_colmap |-> FALSE,
                official_marker |-> FALSE, official_bat |-> FALSE ]
    /\ ret = [ call |-> "none", ret |-> "none", tool |-> NoTool ]
    /\ effects = <<>>
    /\ ncalls = 0
    /\ creates = 0
    /\ cmd = <<>>
    /\ \/ /\ host \in [ system : {"linux"}, colmap_on_path : BOOLEAN,
                        lichtfeld_on_path : {"none"}, sharp_frames_on_path : {FALSE} ]
          /\ \E S \in SUBSET Range(ExtractionOptions) :
                help = [ NoHelp EXCEPT !["feature_extractor"] =
                                          HelpListing(S, ExtractionOptions) ]
          /\ \E g, sc \in BOOLEAN, size, feats \in 1..MaxOption :
                cfg = [ DefaultColmapConfig EXCEPT !.use_gpu = g, !.single_camera = sc,
                                                   !.max_image_size = size,
                                                   !.sift_max_num_features = feats ]
          /\ sharp = [ input_type |-> "video", config |-> DefaultFrameSamplingConfig ]
          /\ lf = DefaultLichtfeldConfig
       \/ /\ host \in [ system : {"linux"}, colmap_on_path : BOOLEAN,
                        lichtfeld_on_path : {"none"}, sharp_frames_on_path : {FALSE} ]
          /\ \E S \in SUBSET Range(MatchingOptions) :
                help = [ c \in Subcommands |->
                           IF c = "feature_extractor" THEN <<>>
                           ELSE HelpListing(S, MatchingOptions) ]
          /\ \E g \in BOOLEAN, m \in {"exhaustive", "sequential"}, ov \in 1..MaxOption :
                cfg = [ DefaultColmapConfig EXCEPT !.use_gpu = g, !.matcher = m,
                                                   !.sequential_overlap = ov ]
          /\ sharp = [ input_type |-> "video", config |-> DefaultFrameSamplingConfig ]
          /\ lf = DefaultLichtfeldConfig
       \/ /\ host \in [ system : {"linux"}, colmap_on_path : {TRUE},
                        lichtfeld_on_path : {"none"}, sharp_frames_on_path : BOOLEAN ]
          /\ help = NoHelp
          /\ cfg = DefaultColmapConfig
          /\ \E t \in {"video", "images"}, m \in SELECTION_METHODS, f \in BOOLEAN,
                w \in {0, MaxOption}, nf, mb, bs, bb, ow, os \in {1, MaxOption} :
                sharp = [ input_type |-> t,
                          config |-> [ DefaultFrameSamplingConfig EXCEPT
                                         !.selection_method = m, !.force_overwrite = f,
                                         !.width = w, !.num_frames = nf, !.min_buffer = mb,
                                         !.batch_size = bs, !.batch_buffer = bb,
                                         !.outlier_window_size = ow,
                                         !.outlier_sensitivity = os ] ]
          /\ lf = DefaultLichtfeldConfig
       \/ /\ host \in [ system : {"linux"}, colmap_on_path : {TRUE},
                        lichtfeld_on_path : {"none", "LichtFeld-Studio"},
                        sharp_frames_on_path : {FALSE} ]
          /\ help = NoHelp
          /\ cfg = DefaultColmapConfig
          /\ sharp = [ input_type |-> "video", config |-> DefaultFrameSamplingConfig ]
          /\ lf \in [ iterations : {1, MaxOption}, resize_factor : {"auto", "2"},
                      strategy : {"adc", "mcmc"}, max_cap : {1, MaxOption},
                      headless : BOOLEAN, gut : BOOLEAN, ppisp_controller : BOOLEAN,
                      mip_filter : BOOLEAN, eval : BOOLEAN, save_eval_images : BOOLEAN,
                      test_every : {-1, 0, MaxOption} ]

\* What colmap_options(c) does after the builder's own colmap_exec ended as
\* outcome t: nothing when that raised.
BuilderProbe(c, t) ==
    IF t.ret = "ok"
    THEN colmap_options(c, t.disk, colmap_options_cache)
    ELSE { [ ret |-> t.ret, disk |-> t.disk, effects |-> <<>>, opts |-> {},
             cache |-> colmap_options_cache, exit |-> "none" ] }

\* A reconstruction builder returns command, or raises what the resolver
\* raised: t is the outcome of its colmap_exec, p of its colmap_options(c).
ReturnBuilt(name, c, t, p, command) ==
    /\ ncalls' = ncalls + 1
    /\ creates' = creates + Count("run:micromamba create", t.effects \o p.effects)
    /\ ret' = [ call |-> name, ret |-> p.ret,
                tool |-> IF p.ret = "ok" THEN t.tool ELSE NoTool ]
    /\ disk' = p.disk
    /\ effects' = t.effects \o p.effects
    /\ colmap_options_cache' = p.cache
    /\ help_runs' = [ help_runs EXCEPT ![c] = @ + Count(HelpRun(c), p.effects) ]
    /\ probe' = IF t.ret = "ok" THEN [ cmd |-> c, opts |-> p.opts, exit |-> p.exit ]
                ELSE probe
    /\ cmd' = IF p.ret = "ok" THEN command ELSE <<>>
    /\ UNCHANGED <<settings, host, help, cfg, sharp, lf, pipeVars,
                   serviceVars>>

FeatureExtractorCmd ==
    /\ ncalls < MaxCalls
    /\ \E t \in colmap_exec(disk) :
          \E p \in BuilderProbe("feature_extractor", t) :
             ReturnBuilt("feature_extractor_cmd", "feature_extractor", t, p,
                         feature_extractor_cmd(t.tool.prefix, p.opts, cfg))

MatcherCmd ==
    /\ ncalls < MaxCalls
    /\ \E t \in colmap_exec(disk) :
          \E p \in BuilderProbe(MatcherSubcommand(cfg), t) :
             ReturnBuilt("matcher_cmd", MatcherSubcommand(cfg), t, p,
                         matcher_cmd(t.tool.prefix, p.opts, cfg))

SharpFramesCmd ==
    /\ ncalls < MaxCalls
    /\ ncalls' = ncalls + 1
    /\ ret' = [ call |-> "to_command", ret |-> "ok", tool |-> sharp_frames_exe ]
    /\ effects' = <<"which:sharp-frames">>
    /\ cmd' = to_command(sharp_frames_exe.prefix, sharp)
    /\ UNCHANGED <<settings, host, disk, creates, help, colmap_options_cache,
                   help_runs, probe, cfg, sharp, lf, pipeVars,
                   serviceVars>>

\* LichtfeldTrainArgs.to_command: lichtfeld_exec, then the command
LichtfeldCmd ==
    /\ ncalls < MaxCalls
    /\ \E t \in lichtfeld_exec(disk) :
          /\ ret' = [ call |-> "lichtfeld_to_command", ret |-> t.ret, tool |-> t.tool ]
          /\ disk' = t.disk
          /\ effects' = t.effects
          /\ cmd' = IF t.ret = "ok" THEN lichtfeld_to_command(t.tool.prefix, lf) ELSE <<>>
    /\ ncalls' = ncalls + 1
    /\ UNCHANGED <<settings, host, creates, help, colmap_options_cache, help_runs,
                   probe, cfg, sharp, lf, pipeVars, serviceVars>>

NextBuild ==
    \/ FeatureExtractorCmd
    \/ MatcherCmd
    \/ SharpFramesCmd
    \/ LichtfeldCmd

SpecBuild == BuildInit /\ [][NextBuild]_vars

(***************************************************************************)
(* process.py: CommandRunner. The output of a subprocess is a text, a       *)
(* sequence of characters; a line is a sequence of characters too.         *)
(***************************************************************************)
\* Characters a subprocess writes: a letter, a line feed, a form feed.
Chars == {"a", "\n", "\f"}

Texts == UNION { [1..n -> Chars] : n \in 0..MaxText }

\* The command lines of the model
Commands == { <<"sharp-frames">>, <<"colmap", "mapper">> }

\* Iterating a text-mode file: each line up to and including its "\n", the
\* rest of the text as a last line when it does not end in "\n".
RECURSIVE FileLines(_)
FileLines(t) ==
    IF t = <<>> THEN <<>>
    ELSE LET nl == { i \in 1..Len(t) : t[i] = "\n" }
         IN  IF nl = {} THEN <<t>>
             ELSE LET i == CHOOSE m \in nl : \A o \in nl : m <= o
                  IN  <<SubSeq(t, 1, i)>> \o FileLines(SubSeq(t, i + 1, Len(t)))

\* line.rstrip("\n")
RECURSIVE RStripNewlines(_)
RStripNewlines(l) ==
    IF l # <<>> /\ l[Len(l)] = "\n" THEN RStripNewlines(SubSeq(l, 1, Len(l) - 1))
    ELSE l

\* The lines run sees, in order
RunLines(t) == [ i \in 1..Len(FileLines(t)) |-> RStripNewlines(FileLines(t)[i]) ]

\* Line boundaries of str.splitlines among Chars
LineBoundaries == {"\n", "\f"}

\* str.splitlines(): split at every line boundary, boundaries dropped, no
\* empty last line after a final boundary.
RECURSIVE SplitLines(_)
SplitLines(t) ==
    IF t = <<>> THEN <<>>
    ELSE LET b == { i \in 1..Len(t) : t[i] \in LineBoundaries }
         IN  IF b = {} THEN <<t>>
             ELSE LET i == CHOOSE m \in b : \A o \in b : m <= o
                  IN  <<SubSeq(t, 1, i - 1)>> \o SplitLines(SubSeq(t, i + 1, Len(t)))

\* "\n".join(lines)
RECURSIVE Join(_)
Join(lines) ==
    IF lines = <<>> THEN <<>>
    ELSE IF Len(lines) = 1 THEN lines[1]
    ELSE lines[1] \o <<"\n">> \o Join(Tail(lines))

\* A deque that never drops a line.
DequeAppendUnbounded(d, x, maxlen) == Append(d, x)

\* deque(maxlen=maxlen).append(x): the oldest element leaves a full deque,
\* a deque of maxlen 0 stays empty.
DequeAppend(d, x, maxlen) ==
    IF maxlen = 0 THEN d
    ELSE IF Len(d) >= maxlen THEN Tail(d) \o <<x>>
    ELSE Append(d, x)

\* lst[-n:], n >= 0: -0 is 0, so lst[-0:] is the whole list.
SliceLast(lst, n) ==
    IF n = 0 THEN lst
    ELSE SubSeq(lst, Max(1, Len(lst) - n + 1), Len(lst))

\* on_line called with the newest line put first.
DeliverNewestFirst(d, line) == <<line>> \o d

\* on_line(line), when a callback was given
Deliver(d, line) == Append(d, line)

\* run was called and has started the subprocess (Popen, lines 44-53); the
\* callback, if one was given, returns normally (raises_at = 0).
RunInit ==
    /\ InitIdle
    /\ InitTool
    /\ proc \in [ command : Commands, out : Texts, returncode : ExitCodes,
                  tail_lines : 0..MaxTail, on_line : BOOLEAN, raises_at : {0} ]
    /\ nread = 0
    /\ tail = <<>>
    /\ delivered = <<>>
    /\ outcome = NoOutcome
    /\ captured = NoCapture
    /\ child = "running"
    /\ WorkspacesIdle
    /\ FramesIdle
    /\ InstallIdle
    /\ AssetsIdle

\* One iteration of `for line in proc.stdout` (lines 57-61).
ReadLine ==
    /\ outcome.kind = "running"
    /\ nread < Len(RunLines(proc.out))
    /\ ~(proc.on_line /\ proc.raises_at = nread + 1)
    /\ LET line == RunLines(proc.out)[nread + 1]
       IN  /\ tail' = DequeAppend(tail, line, proc.tail_lines)
           /\ delivered' = IF proc.on_line THEN Deliver(delivered, line) ELSE delivered
    /\ nread' = nread + 1
    /\ UNCHANGED <<proc, outcome, captured, child, pipeVars, toolVars, wsVars, frameVars,
                   installVars, assetVars>>

\* The subprocess exits, its output written to the pipe.
ChildExits ==
    /\ child = "running"
    /\ child' = "exited"
    /\ UNCHANGED <<proc, nread, tail, delivered, outcome, captured, pipeVars, toolVars,
                   wsVars, frameVars, installVars, assetVars>>

\* The output is exhausted: proc.wait(), which returns once the subprocess
\* has exited, and the return or raise (lines 62-69).
Wait ==
    /\ outcome.kind = "running"
    /\ nread = Len(RunLines(proc.out))
    /\ child = "exited"
    /\ child' = "reaped"
    /\ outcome' = IF proc.returncode # 0
                  THEN [ kind |-> "CommandFailedError", command |-> proc.command,
                         returncode |-> proc.returncode, tail |-> Join(tail) ]
                  ELSE [ kind |-> "returned", command |-> <<>>, returncode |-> 0,
                         tail |-> <<>> ]
    /\ UNCHANGED <<proc, nread, tail, delivered, captured, pipeVars, toolVars, wsVars, frameVars,
                   installVars, assetVars>>

\* run_capture on the same subprocess (lines 71-95): subprocess.run blocks
\* until the exit, the whole output is in proc.stdout.
RunCapture ==
    /\ captured.kind = "none"
    /\ captured' = IF proc.returncode # 0
                   THEN [ kind |-> "CommandFailedError", command |-> proc.command,
                          returncode |-> proc.returncode,
                          tail |-> Join(SliceLast(SplitLines(proc.out), proc.tail_lines)),
                          out |-> <<>> ]
                   ELSE [ kind |-> "returned", command |-> <<>>, returncode |-> 0,
                          tail |-> <<>>, out |-> proc.out ]
    /\ UNCHANGED <<proc, nread, tail, delivered, outcome, child, pipeVars, toolVars, wsVars,
                   frameVars, installVars, assetVars>>

NextRun ==
    \/ ReadLine
    \/ ChildExits
    \/ Wait
    \/ RunCapture

SpecRun == RunInit /\ [][NextRun]_vars

\* The calls of on_line at which a callback may raise
RaisingCalls == {1, 2}

\* run was called with a callback that raises at one of its calls.
RunCallbackInit ==
    /\ InitIdle
    /\ InitTool
    /\ proc \in [ command : Commands, out : Texts, returncode : ExitCodes,
                  tail_lines : 0..MaxTail, on_line : {TRUE}, raises_at : RaisingCalls ]
    /\ nread = 0
    /\ tail = <<>>
    /\ delivered = <<>>
    /\ outcome = NoOutcome
    /\ captured = NoCapture
    /\ child = "running"
    /\ WorkspacesIdle
    /\ FramesIdle
    /\ InstallIdle
    /\ AssetsIdle

\* on_line(line) raises (line 61): the finally clause closes proc.stdout
\* (line 63) and the exception leaves run; proc.wait() of line 65 is not
\* reached.
CallbackRaises ==
    /\ outcome.kind = "running"
    /\ nread < Len(RunLines(proc.out))
    /\ proc.on_line
    /\ proc.raises_at = nread + 1
    /\ LET line == RunLines(proc.out)[nread + 1]
       IN  /\ tail' = DequeAppend(tail, line, proc.tail_lines)
           /\ delivered' = Deliver(delivered, line)
    /\ nread' = nread + 1
    /\ outcome' = [ kind |-> "CallbackError", command |-> <<>>, returncode |-> 0,
                    tail |-> <<>> ]
    /\ UNCHANGED <<proc, captured, child, pipeVars, toolVars, wsVars, frameVars,
                   installVars, assetVars>>

NextRunCallback ==
    \/ ReadLine
    \/ CallbackRaises
    \/ ChildExits
    \/ Wait
    \/ RunCapture

SpecRunCallback == RunCallbackInit /\ [][NextRunCallback]_vars

(***************************************************************************)
(* workspace.py: workspaces of successive runs in one jobs directory. A    *)
(* file of an images directory is <<name, run>>: its name and the run that *)
(* wrote it.                                                               *)
(***************************************************************************)
ImageNames == {"a.jpg", "b.jpg"}

\* Workspace.ensure: mkdir(parents=True, exist_ok=True) creates what is
\* missing and leaves an existing directory as it is.
Ensure(dir) == [ exists |-> TRUE, images |-> dir.images ]

\* shutil.copy2 to images_dir / name by run i: a file of that name is replaced.
CopyTo(dir, name, i) ==
    [ dir EXCEPT !.images = { f \in @ : f[1] # name } \cup { <<name, i>> } ]

WsInit ==
    /\ InitIdle
    /\ InitTool
    /\ RunnerIdle
    /\ WorkspacesIdle
    /\ FramesIdle
    /\ InstallIdle
    /\ AssetsIdle

\* The wall clock advances.
Tick ==
    /\ now < MaxTicks
    /\ now' = now + 1
    /\ UNCHANGED <<jobs, created, pipeVars, toolVars, runVars, frameVars,
                   installVars, assetVars>>

\* A run starts: Workspace.create(jobs_dir, name="splatflow").
WorkspaceCreate ==
    /\ Len(created) < MaxRuns
    /\ LET root == WorkspaceRoot(Strftime(now))
       IN  /\ jobs' = [ jobs EXCEPT ![root] = Ensure(@) ]
           /\ created' = Append(created, [ root |-> root, found |-> jobs[root].images ])
    /\ UNCHANGED <<now, pipeVars, toolVars, runVars, frameVars,
                   installVars, assetVars>>

\* Run i copies an image into its workspace's images directory.
CopyImage ==
    /\ \E i \in DOMAIN created, n \in ImageNames :
          /\ jobs[created[i].root].exists
          /\ <<n, i>> \notin jobs[created[i].root].images
          /\ jobs' = [ jobs EXCEPT ![created[i].root] = CopyTo(@, n, i) ]
    /\ UNCHANGED <<now, created, pipeVars, toolVars, runVars, frameVars,
                   installVars, assetVars>>

\* Run i succeeded without keep_intermediates: shutil.rmtree(workspace.root).
RemoveWorkspace ==
    /\ \E i \in DOMAIN created :
          /\ jobs[created[i].root].exists
          /\ jobs' = [ jobs EXCEPT ![created[i].root] =
                                      [ exists |-> FALSE, images |-> {} ] ]
    /\ UNCHANGED <<now, created, pipeVars, toolVars, runVars, frameVars,
                   installVars, assetVars>>

NextWs ==
    \/ Tick
    \/ WorkspaceCreate
    \/ CopyImage
    \/ RemoveWorkspace

SpecWs == WsInit /\ [][NextWs]_vars

(***************************************************************************)
(* pipeline.py: the frames of the video loop. A file name is a sequence of *)
(* characters.                                                             *)
(***************************************************************************)
\* Stems of video files: two videos of one directory can share a stem
\* (a.mp4, a.mov), and a stem can end like the index part of a frame name.
Stems == { <<"a">>, <<"a", "_", "0", "0", "0">>, <<"a", "_", "0", "0", "1">> }

\* Suffixes of the files a sampler leaves
FrameSuffixes == { <<".", "j", "p", "g">>, <<".", "J", "P", "G">> }

\* str.lower() on the characters of FrameSuffixes and of asset names
LowerChar(c) ==
    CASE c = "J" -> "j"
      [] c = "P" -> "p"
      [] c = "G" -> "g"
      [] c = "W" -> "w"
      [] c = "Z" -> "z"
      [] c = "I" -> "i"
      [] OTHER -> c

Lower(str) == [ k \in 1..Len(str) |-> LowerChar(str[k]) ]

\* f"{n:0wd}": the decimal digits of n, zeros in front up to width w
ZeroPad(n, w) ==
    LET d == Digits(n)
    IN  IF Len(d) >= w THEN d ELSE [ k \in 1..(w - Len(d)) |-> "0" ] \o d

\* A frame name without the index of its video.
FrameNameNoVideoIndex(prefix, i, j, suffix) ==
    prefix \o <<"_">> \o ZeroPad(j, 6) \o Lower(suffix)

\* f"{prefix}_{i:03d}_{j:06d}{img.suffix.lower()}" (line 152)
FrameName(prefix, i, j, suffix) ==
    prefix \o <<"_">> \o ZeroPad(i, 3) \o <<"_">> \o ZeroPad(j, 6) \o Lower(suffix)

\* The video loop has reached its first video; the workspace was created
\* by this run and its images directory is empty.
FramesInit ==
    /\ InitIdle
    /\ InitTool
    /\ RunnerIdle
    /\ WorkspacesIdle
    /\ InstallIdle
    /\ AssetsIdle
    /\ stems \in UNION { [1..n -> Stems] : n \in 1..MaxVideos }
    /\ fi = 0
    /\ fj = 0
    /\ images_dir = {}
    /\ copied = 0

\* One iteration of the copy loop (lines 151-153): the next file of the
\* sampler's output directory goes to images_dir under its new name.
CopyFrame ==
    /\ fi < Len(stems)
    /\ fj < MaxSampled
    /\ \E suffix \in FrameSuffixes :
          images_dir' = images_dir \cup { FrameName(stems[fi + 1], fi, fj, suffix) }
    /\ fj' = fj + 1
    /\ copied' = copied + 1
    /\ UNCHANGED <<stems, fi, pipeVars, toolVars, runVars, wsVars,
                   installVars, assetVars>>

\* The output directory is exhausted: the next video, its sampler run.
NextVideo ==
    /\ fi < Len(stems)
    /\ fi' = fi + 1
    /\ fj' = 0
    /\ UNCHANGED <<stems, images_dir, copied, pipeVars, toolVars, runVars, wsVars,
                   installVars, assetVars>>

NextFrames ==
    \/ CopyFrame
    \/ NextVideo

SpecFrames == FramesInit /\ [][NextFrames]_vars

(***************************************************************************)
(* toolchain.py: ensure_env and ensure_colmap_official line by line, run   *)
(* by two resolvers over one tools directory. A resolver stands at a line  *)
(* (pc) of the method it was called with; a step is what that line does to *)
(* the shared directory.                                                   *)
(***************************************************************************)
InstallMethods == {"ensure_env", "ensure_colmap_official"}

\* The lines between the marker check of a method and its return
InstallSteps ==
    {"ensure_micromamba", "create", "creating", "write_marker", "resolve_release",
     "official_marker", "download", "rmtree", "extract", "candidates",
     "write_official_marker"}

At(i, method, pc) == inst[i].method = method /\ inst[i].pc = pc

Goto(i, pc) == inst' = [inst EXCEPT ![i].pc = pc]

Returns(i) == inst' = [inst EXCEPT ![i].pc = "returned", ![i].ret = "ok"]

Raises(i, e) == inst' = [inst EXCEPT ![i].pc = "raised", ![i].ret = e]

\* Two Toolchain objects built over one tools directory in which neither
\* the environment nor the official release is installed.
InstallInit ==
    /\ InitIdle
    /\ settings \in [ colmap_path : {"unset"}, lichtfeld_path : {"unset"},
                      auto_install_tools : BOOLEAN, colmap_source : {"official"},
                      colmap_latest : BOOLEAN ]
    /\ host \in [ system : {"windows", "linux"}, colmap_on_path : {FALSE},
                  lichtfeld_on_path : {"none"}, sharp_frames_on_path : {FALSE} ]
    /\ disk = [ micromamba |-> FALSE, env_marker |-> FALSE, env_colmap |-> FALSE,
                official_marker |-> FALSE, official_bat |-> FALSE ]
    /\ ret = [ call |-> "none", ret |-> "none", tool |-> NoTool ]
    /\ effects = <<>>
    /\ ncalls = 0
    /\ creates = 0
    /\ help = NoHelp
    /\ InitCache
    /\ InitBuilders
    /\ RunnerIdle
    /\ WorkspacesIdle
    /\ FramesIdle
    /\ AssetsIdle
    /\ tools_dir \in [ micromamba : BOOLEAN, env_marker : {FALSE}, env_colmap : {FALSE},
                       install_dir : {FALSE}, official_marker : {FALSE},
                       official_bat : {FALSE} ]
    /\ inst = [ i \in Resolvers |-> [ method |-> "none", pc |-> "idle", ret |-> "none" ] ]
    /\ done = [ env_created |-> FALSE, official_found |-> FALSE ]

\* A step of a resolver leaves everything else alone.
InstallOnly == UNCHANGED <<pipeVars, toolVars, runVars, wsVars, frameVars, assetVars>>

\* A resolver is called with one of the two methods.
InstallCall ==
    /\ \E i \in Resolvers, m \in InstallMethods :
          /\ inst[i].pc = "idle"
          /\ inst' = [inst EXCEPT ![i] = [ method |-> m, pc |-> "marker_check",
                                           ret |-> "none" ]]
          /\ UNCHANGED <<tools_dir, done>>
    /\ InstallOnly

\* A marker check that an install in progress elsewhere holds back.
EnvMissingLocked(i) ==
    /\ ~tools_dir.env_marker
    /\ \A j \in Resolvers \ {i} : inst[j].pc \notin InstallSteps

\* Lines 103-106 of ensure_env: marker.exists() alone decides
EnvMissing(i) == ~tools_dir.env_marker

\* ensure_env, lines 103-110
EnvMarkerCheck ==
    /\ \E i \in Resolvers :
          /\ At(i, "ensure_env", "marker_check")
          /\ IF ~EnvMissing(i) THEN Returns(i)
             ELSE IF ~settings.auto_install_tools THEN Raises(i, "ToolNotFoundError")
             ELSE Goto(i, "ensure_micromamba")
          /\ UNCHANGED <<tools_dir, done>>
    /\ InstallOnly

\* ensure_env, line 112: ensure_micromamba (lines 82-100)
EnvMicromamba ==
    /\ \E i \in Resolvers :
          /\ At(i, "ensure_env", "ensure_micromamba")
          /\ IF tools_dir.micromamba
             THEN Goto(i, "create") /\ UNCHANGED tools_dir
             ELSE \/ Raises(i, "Exception") /\ UNCHANGED tools_dir
                  \/ /\ Goto(i, "create")
                     /\ tools_dir' = [tools_dir EXCEPT !.micromamba = TRUE]
          /\ UNCHANGED done
    /\ InstallOnly

\* ensure_env, line 119: the create command is spawned
EnvCreateStart ==
    /\ \E i \in Resolvers :
          /\ At(i, "ensure_env", "create")
          /\ Goto(i, "creating")
          /\ UNCHANGED <<tools_dir, done>>
    /\ InstallOnly

\* A runner whose run returns whatever the exit code.
AfterCreateUnchecked(code) == "write_marker"

\* runner.run of line 119 raises CommandFailedError on a nonzero exit
\* (process.py 66-68), so line 121 is reached only after exit code 0.
AfterCreate(code) == IF code = 0 THEN "write_marker" ELSE "raised"

\* ensure_env, line 119: the create command exits
EnvCreateExit ==
    /\ \E i \in Resolvers, code \in ExitCodes :
          /\ At(i, "ensure_env", "creating")
          /\ inst' = [inst EXCEPT ![i].pc = AfterCreate(code),
                                  ![i].ret = IF AfterCreate(code) = "raised"
                                             THEN "CommandFailedError" ELSE @]
          /\ tools_dir' = [tools_dir EXCEPT !.env_colmap = @ \/ code = 0]
          /\ done' = [done EXCEPT !.env_created = @ \/ code = 0]
    /\ InstallOnly

\* ensure_env, lines 121-123
EnvWriteMarker ==
    /\ \E i \in Resolvers :
          /\ At(i, "ensure_env", "write_marker")
          /\ tools_dir' = [tools_dir EXCEPT !.env_marker = TRUE]
          /\ Returns(i)
          /\ UNCHANGED done
    /\ InstallOnly

\* ensure_colmap_official, lines 143-152
OfficialChecks ==
    /\ \E i \in Resolvers :
          /\ At(i, "ensure_colmap_official", "marker_check")
          /\ IF ~Nt \/ ~settings.auto_install_tools THEN Raises(i, "ToolNotFoundError")
             ELSE Goto(i, "resolve_release")
          /\ UNCHANGED <<tools_dir, done>>
    /\ InstallOnly

\* ensure_colmap_official, lines 154-157: the latest release is asked for
OfficialResolveRelease ==
    /\ \E i \in Resolvers :
          /\ At(i, "ensure_colmap_official", "resolve_release")
          /\ \/ Goto(i, "official_marker")
             \/ settings.colmap_latest /\ Raises(i, "Exception")
          /\ UNCHANGED <<tools_dir, done>>
    /\ InstallOnly

\* ensure_colmap_official, lines 167-171
OfficialMarkerCheck ==
    /\ \E i \in Resolvers :
          /\ At(i, "ensure_colmap_official", "official_marker")
          /\ IF tools_dir.official_marker /\ tools_dir.official_bat
             THEN Returns(i) /\ UNCHANGED tools_dir
             ELSE /\ Goto(i, "download")
                  /\ tools_dir' = [tools_dir EXCEPT !.official_marker = FALSE]
          /\ UNCHANGED done
    /\ InstallOnly

\* ensure_colmap_official, lines 173-175
OfficialDownload ==
    /\ \E i \in Resolvers :
          /\ At(i, "ensure_colmap_official", "download")
          /\ Goto(i, "rmtree") \/ Raises(i, "Exception")
          /\ UNCHANGED <<tools_dir, done>>
    /\ InstallOnly

\* ensure_colmap_official, lines 177-178: the marker lies in install_dir
OfficialRmtree ==
    /\ \E i \in Resolvers :
          /\ At(i, "ensure_colmap_official", "rmtree")
          /\ tools_dir' = [tools_dir EXCEPT !.install_dir = FALSE,
                                            !.official_marker = FALSE,
                                            !.official_bat = FALSE]
          /\ Goto(i, "extract")
          /\ UNCHANGED done
    /\ InstallOnly

\* ensure_colmap_official, line 179: the archive holds COLMAP.bat or not
OfficialExtract ==
    /\ \E i \in Resolvers :
          /\ At(i, "ensure_colmap_official", "extract")
          /\ \/ /\ Raises(i, "Exception")
                /\ tools_dir' = [tools_dir EXCEPT !.install_dir = TRUE]
             \/ \E bat \in BOOLEAN :
                   /\ Goto(i, "candidates")
                   /\ tools_dir' = [tools_dir EXCEPT !.install_dir = TRUE,
                                                     !.official_bat = @ \/ bat]
          /\ UNCHANGED done
    /\ InstallOnly

\* ensure_colmap_official, lines 181-183
OfficialCandidates ==
    /\ \E i \in Resolvers :
          /\ At(i, "ensure_colmap_official", "candidates")
          /\ IF tools_dir.install_dir /\ tools_dir.official_bat
             THEN /\ Goto(i, "write_official_marker")
                  /\ done' = [done EXCEPT !.official_found = TRUE]
             ELSE /\ Raises(i, "ToolNotFoundError")
                  /\ UNCHANGED done
          /\ UNCHANGED tools_dir
    /\ InstallOnly

\* ensure_colmap_official, lines 185-186: write_text fails in a directory
\* that is gone
OfficialWriteMarker ==
    /\ \E i \in Resolvers :
          /\ At(i, "ensure_colmap_official", "write_official_marker")
          /\ IF tools_dir.install_dir
             THEN /\ tools_dir' = [tools_dir EXCEPT !.official_marker = TRUE]
                  /\ Returns(i)
             ELSE /\ Raises(i, "OSError")
                  /\ UNCHANGED tools_dir
          /\ UNCHANGED done
    /\ InstallOnly

\* The process of a resolver is killed in the middle of an install.
Interrupt ==
    /\ \E i \in Resolvers :
          /\ inst[i].pc \in InstallSteps
          /\ Goto(i, "killed")
          /\ UNCHANGED <<tools_dir, done>>
    /\ InstallOnly

NextInstall ==
    \/ InstallCall
    \/ EnvMarkerCheck
    \/ EnvMicromamba
    \/ EnvCreateStart
    \/ EnvCreateExit
    \/ EnvWriteMarker
    \/ OfficialChecks
    \/ OfficialResolveRelease
    \/ OfficialMarkerCheck
    \/ OfficialDownload
    \/ OfficialRmtree
    \/ OfficialExtract
    \/ OfficialCandidates
    \/ OfficialWriteMarker
    \/ Interrupt

SpecInstall == InstallInit /\ [][NextInstall]_vars

(***************************************************************************)
(* toolchain.py: the asset _download_lichtfeld picks from the trainer's    *)
(* latest release. A name is a sequence of characters.                     *)
(***************************************************************************)
\* _platform_tag (lines 47-58)
PlatformTags == {"win-64", "linux-64", "linux-aarch64", "osx-64", "osx-arm64"}

\* The operating system a platform tag stands for
PlatformOS(tag) ==
    CASE tag = "win-64" -> "windows"
      [] tag \in {"linux-64", "linux-aarch64"} -> "linux"
      [] tag \in {"osx-64", "osx-arm64"} -> "osx"

\* _lichtfeld_keywords (lines 342-349)
lichtfeld_keywords(tag) ==
    CASE tag = "win-64" ->
           << <<"w", "i", "n">>, <<"w", "i", "n", "d", "o", "w", "s">>,
              <<"p", "o", "r", "t", "a", "b", "l", "e">>, <<"x", "6", "4">>,
              <<"6", "4">> >>
      [] tag \in {"linux-64", "linux-aarch64"} ->
           << <<"l", "i", "n", "u", "x">>, <<"u", "b", "u", "n", "t", "u">>,
              <<"x", "6", "4">>, <<"6", "4">> >>
      [] tag \in {"osx-64", "osx-arm64"} ->
           << <<"m", "a", "c">>, <<"o", "s", "x">>, <<"d", "a", "r", "w", "i", "n">>,
              <<"a", "r", "m", "6", "4">>, <<"x", "6", "4">>, <<"6", "4">> >>

\* Assets a release can list: the name, the operating system the asset is
\* built for, whether it has a browser_download_url. The names are
\* Win.ZIP, linux-x64.zip, darwin.zip, linux.tgz and src.zip.
AssetPool ==
    [ name : { <<"W", "i", "n", ".", "Z", "I", "P">> }, os : {"windows"}, url : BOOLEAN ]
    \cup [ name : { <<"l", "i", "n", "u", "x", "-", "x", "6", "4", ".", "z", "i", "p">> },
           os : {"linux"}, url : BOOLEAN ]
    \cup [ name : { <<"d", "a", "r", "w", "i", "n", ".", "z", "i", "p">> },
           os : {"osx"}, url : BOOLEAN ]
    \cup [ name : { <<"l", "i", "n", "u", "x", ".", "t", "g", "z">> },
           os : {"linux"}, url : BOOLEAN ]
    \cup [ name : { <<"s", "r", "c", ".", "z", "i", "p">> }, os : {"any"}, url : BOOLEAN ]

\* k in n
Contains(n, k) ==
    \E i \in 0..(Len(n) - Len(k)) : SubSeq(n, i + 1, i + Len(k)) = k

\* n.endswith(suffix)
EndsWith(n, suffix) ==
    /\ Len(n) >= Len(suffix)
    /\ SubSeq(n, Len(n) - Len(suffix) + 1, Len(n)) = suffix

\* any(k in n for k in keywords)
AnyKeyword(n, keywords) == \E j \in DOMAIN keywords : Contains(n, keywords[j])

\* The test of lines 301-307 on one asset
AssetTaken(a, keywords) ==
    /\ a.url
    /\ EndsWith(Lower(a.name), <<".", "z", "i", "p">>)
    /\ AnyKeyword(Lower(a.name), keywords)

RECURSIVE FirstTaken(_, _, _)
\* The loop of lines 300-311 from index i on: the first asset taken, 0 when
\* the loop ends without one
FirstTaken(lst, keywords, i) ==
    IF i > Len(lst) THEN 0
    ELSE IF AssetTaken(lst[i], keywords) THEN i
    ELSE FirstTaken(lst, keywords, i + 1)

\* _download_lichtfeld has the release's asset list in hand (line 297).
AssetInit ==
    /\ InitIdle
    /\ InitTool
    /\ RunnerIdle
    /\ WorkspacesIdle
    /\ FramesIdle
    /\ InstallIdle
    /\ platform_tag \in PlatformTags
    /\ assets \in UNION { [1..n -> AssetPool] : n \in 0..MaxAssets }
    /\ chosen = [ done |-> FALSE, index |-> 0 ]

\* Lines 298-317: the loop over the assets
SelectAsset ==
    /\ ~chosen.done
    /\ chosen' = [ done |-> TRUE,
                   index |-> FirstTaken(assets, lichtfeld_keywords(platform_tag), 1) ]
    /\ UNCHANGED <<platform_tag, assets, pipeVars, toolVars, runVars, wsVars, frameVars,
                   installVars>>

NextAsset == SelectAsset

SpecAsset == AssetInit /\ [][NextAsset]_vars

(***************************************************************************)
(* Properties of one pipeline run (Spec).                                  *)
(***************************************************************************)
VideoBestN ==
    /\ config.input_type = "video"
    /\ config.frame_sampling.selection_method = "best-n"

\* C1: for video input with best-n, once all n >= 1 samplers of the Ingest
\* were invoked, the num_frames values passed to them sum to the requested
\* total T, for every n >= 1 and T >= 1 (T < n included).
C1_BudgetSumIsTotal ==
    (VideoBestN /\ src.videos >= 1 /\ Len(passed) = src.videos)
        => SumSeq(passed) = config.frame_sampling.num_frames

\* C2: for best-n with n > 1 videos, any two per-video quotas differ by at
\* most 1, and the video at 0-based index i has the extra frame iff
\* i < T mod n: a video below T mod n has exactly one frame more than a
\* video at or above it, and videos on the same side have equal quotas.
C2_BudgetDistribution ==
    (VideoBestN /\ src.videos > 1) =>
        LET rem == config.frame_sampling.num_frames % src.videos IN
        \A i, j \in 1..Len(passed) :
            /\ passed[i] - passed[j] \in -1..1
            /\ (i - 1 < rem /\ j - 1 >= rem) => passed[i] = passed[j] + 1
            /\ ((i - 1 < rem) <=> (j - 1 < rem)) => passed[i] = passed[j]

C2_Witness ==
    /\ VideoBestN
    /\ src.videos = 3
    /\ Len(passed) = 3
    /\ config.frame_sampling.num_frames % 3 = 1
    /\ passed[1] = passed[2] + 1

\* C3: the stages are entered only in the order Validate, Ingest,
\* Reconstruct, Export, Train, Done, each at most once; once a stage has
\* failed the run is in Failed, and from then on no stage is entered and
\* nothing more is executed.
C3_StageSequencing ==
    /\ [](/\ Len(entered) <= Len(StageOrder)
          /\ entered = SubSeq(StageOrder, 1, Len(entered)))
    /\ [](error # "none" => Stage = "Failed")
    /\ [][error # "none" => UNCHANGED <<entered, events>>]_vars

C3_Witness ==
    /\ Stage = "Failed"
    /\ error = "CommandFailedError"
    /\ entered = <<"Validate", "Ingest", "Reconstruct">>
    /\ RunEvent("mapper") \in Range(events)

IsReconRun(e) ==
    /\ e[1] = "run"
    /\ e[2] \in {"feature_extractor", "exhaustive_matcher", "sequential_matcher",
                 "mapper", "image_undistorter"}

ReconRuns == SelectSeq(events, IsReconRun)

\* C4: the reconstruction commands executed are, at any time, a prefix of
\* feature_extractor, matcher, mapper, image_undistorter (the matcher being
\* sequential_matcher iff the configured matcher is sequential), a command
\* is started only when all before it exited with code zero, and a run
\* whose Reconstruct stage succeeded has executed exactly these four.
C4_ReconstructOrder ==
    LET want == << RunEvent("feature_extractor"),
                   RunEvent(IF config.matcher = "sequential"
                            THEN "sequential_matcher" ELSE "exhaustive_matcher"),
                   RunEvent("mapper"),
                   RunEvent("image_undistorter") >>
    IN /\ Len(ReconRuns) <= 4
       /\ ReconRuns = SubSeq(want, 1, Len(ReconRuns))
       /\ Len(ReconRuns) <= ci + 1
       /\ ("Export" \in Range(entered) => ReconRuns = want)

C4_Witness ==
    /\ "Export" \in Range(entered)
    /\ config.matcher = "sequential"
    /\ Len(ReconRuns) = 4

\* C5: if sparse/0 does not exist after the mapper has completed (exit
\* code zero), the run fails with ValidationError and neither Export nor
\* Train is entered.
C5_SparseModelGate ==
    (ci >= 3 /\ ~sparse0) =>
        /\ "Export" \notin Range(entered)
        /\ "Train" \notin Range(entered)
        /\ pos # "returned"
        /\ (pos = "raised" => error = "ValidationError")

\* C6: when the configuration's validate() fails, run raises
\* ValidationError and has created no workspace and no run output
\* directory, resolved no tool and executed no command.
C6_ValidationGate ==
    (pos # "validate" /\ ~PipelineConfigValid(config)) =>
        /\ pos = "raised"
        /\ error = "ValidationError"
        /\ ~ws_exists
        /\ ~out_exists
        /\ events = <<>>
        /\ entered = <<"Validate">>

C6_Witness ==
    /\ pos = "raised"
    /\ error = "ValidationError"
    /\ config.input_ok
    /\ ~FrameSamplingValid(config.frame_sampling)

C8_FailureKeepsWorkspace ==
    (pos = "raised" /\ Len(entered) >= 2) => ws_exists

C8_Witness ==
    /\ pos = "raised"
    /\ entered[Len(entered)] = "Train"
    /\ error = "CommandFailedError"
    /\ ~config.keep_intermediates
    /\ ws_exists

(***************************************************************************)
(* Properties of the resolver (SpecTool).                                  *)
(***************************************************************************)
\* C9: for the reconstruction tool and for the trainer, a configured path
\* that does not exist makes the resolution raise ToolNotFoundError having
\* done nothing else: no which(), no request, no download, no command.
C9_ExplicitPathFinal ==
    /\ (ret.call = "colmap_exec" /\ settings.colmap_path = "missing")
          => (ret.ret = "ToolNotFoundError" /\ effects = <<>>)
    /\ (ret.call = "lichtfeld_exec" /\ settings.lichtfeld_path = "missing")
          => (ret.ret = "ToolNotFoundError" /\ effects = <<>>)

C9_Witness ==
    /\ ret.call = "colmap_exec"
    /\ settings.colmap_path = "missing"
    /\ host.colmap_on_path
    /\ settings.auto_install_tools
    /\ ret.ret = "ToolNotFoundError"

\* The chain step an effect of colmap_exec belongs to: 2 the PATH lookup,
\* 3 the official release, 4 the managed environment.
ChainStep(e) ==
    IF e = "which:colmap" THEN 2
    ELSE IF e \in {"http:colmap_latest", "unlink:official_marker", "download:colmap",
                   "extract:colmap", "write:official_marker"} THEN 3
    ELSE 4

\* The chain step a returned descriptor comes from, by its executable.
DescriptorStep(tool) ==
    IF tool.exe = "tool_paths.colmap" THEN 1
    ELSE IF tool.exe = "which:colmap" THEN 2
    ELSE IF tool.exe = "COLMAP.bat" THEN 3
    ELSE 4

\* C10: colmap_exec tries explicit path, PATH lookup, official release,
\* managed environment in this order; the first step that succeeds gives
\* the descriptor and nothing of a later step is done after it: an
\* existing explicit path means no PATH lookup, a PATH hit means no
\* download and no package-manager command, an intact official install
\* means no managed environment.
C10_ChainOrder ==
    ret.call = "colmap_exec" =>
        /\ \A i, j \in 1..Len(effects) :
              i < j => ChainStep(effects[i]) <= ChainStep(effects[j])
        /\ ret.ret = "ok" =>
              \A i \in 1..Len(effects) : ChainStep(effects[i]) <= DescriptorStep(ret.tool)
        /\ settings.colmap_path = "exists" =>
              /\ ret.ret = "ok"
              /\ DescriptorStep(ret.tool) = 1
              /\ effects = <<>>
        /\ (settings.colmap_path = "unset" /\ host.colmap_on_path) =>
              /\ ret.ret = "ok"
              /\ DescriptorStep(ret.tool) = 2
              /\ effects = <<"which:colmap">>
        /\ (settings.colmap_path = "unset" /\ ~host.colmap_on_path) =>
              /\ Len(effects) >= 1
              /\ effects[1] = "which:colmap"
        /\ ( /\ ret.ret = "ok"
             /\ settings.colmap_path = "unset"
             /\ ~host.colmap_on_path
             /\ settings.colmap_source = "official"
             /\ host.system = "windows"
             /\ settings.auto_install_tools
             /\ disk.official_marker
             /\ disk.official_bat ) => DescriptorStep(ret.tool) = 3

C10_Witness ==
    /\ ret.call = "colmap_exec"
    /\ ret.ret = "ok"
    /\ DescriptorStep(ret.tool) = 4
    /\ effects = <<"which:colmap", "download:colmap", "extract:colmap",
                   "download:micromamba", "extract:micromamba",
                   "run:micromamba create", "write:env_marker">>

\* C11: a colmap_exec call with no configured path, nothing on PATH and
\* source "official", made where the official step is unavailable (not
\* Windows, or auto_install_tools off), ends as the managed-environment
\* step ends from the same tools directory; an environment whose marker
\* is there is used.
C11_OfficialFallThrough ==
    [][ ( /\ ret'.call = "colmap_exec"
          /\ settings.colmap_path = "unset"
          /\ ~host.colmap_on_path
          /\ settings.colmap_source = "official"
          /\ (~Nt \/ ~settings.auto_install_tools) )
        => \E c \in ColmapCondaStep(disk) :
              /\ ret'.ret = c.ret
              /\ ret'.tool = c.tool
              /\ disk' = c.disk
              /\ effects' = <<"which:colmap">> \o c.effects ]_vars

\* C12: ensure_env called where the environment's marker exists returns
\* the environment and runs nothing: no create command, no download, the
\* tools directory untouched. A successful ensure_env leaves the marker,
\* and no resolver call removes it, so every ensure_env after a successful
\* one runs the create command zero more times.
C12_MarkerIdempotency ==
    /\ []((ret.call = "ensure_env" /\ ret.ret = "ok") => disk.env_marker)
    /\ [][disk.env_marker => disk'.env_marker]_vars
    /\ [][(ret'.call = "ensure_env" /\ disk.env_marker)
            => /\ ret'.ret = "ok"
               /\ effects' = <<>>
               /\ creates' = creates
               /\ disk' = disk]_vars

\* The environment was created once on this instance and a later
\* ensure_env returned it without running anything.
C12_Witness ==
    /\ ncalls = 2
    /\ creates = 1
    /\ ret.call = "ensure_env"
    /\ ret.ret = "ok"
    /\ effects = <<>>
    /\ disk.env_marker

\* C13: no install path answers with success on a stale marker: a call
\* that returned the official release's COLMAP.bat leaves that file in the
\* tools directory, and a call that returned the managed environment
\* (ensure_env, or colmap_exec through micromamba run) leaves colmap
\* installed in it.
C13_StaleMarker ==
    /\ (ret.ret = "ok" /\ ret.tool.exe = "COLMAP.bat") => disk.official_bat
    /\ (ret.ret = "ok" /\ (ret.call = "ensure_env" \/ ret.tool.env_path))
          => disk.env_colmap

\* The downloads and extractions among the effects of a call
Installs(effs) ==
    { i \in 1..Len(effs) :
        effs[i] \in { "download:micromamba", "extract:micromamba", "download:colmap",
                      "extract:colmap", "download:lichtfeld", "extract:lichtfeld" } }

\* C14: a resolution that installed its tool (downloaded or extracted
\* something and returned) is followed, when the same tool is resolved
\* again on the files it left, by a resolution that downloads nothing and
\* extracts nothing: the marker written by the first stops the second.
C14_MarkerGuarded ==
    [][ ( /\ ret.call \in {"colmap_exec", "ensure_env", "lichtfeld_exec"}
          /\ ret.ret = "ok"
          /\ Installs(effects) # {}
          /\ ret'.call = ret.call )
        => Installs(effects') = {} ]_vars

(***************************************************************************)
(* Properties of the capability probe (SpecProbe).                         *)
(***************************************************************************)
\* C15: colmap_options never raises: every call returns a set, and the
\* set is empty when colmap could not be resolved, when the help command
\* could not be started and when it exited nonzero.
C15_ProbeNeverRaises ==
    ret.call = "colmap_options" =>
        /\ ret.ret = "ok"
        /\ probe.exit \in {"unresolved", "OSError", "nonzero"} => probe.opts = {}

\* C16: on one Toolchain the help command of a subcommand runs at most
\* once. A colmap_options call for a cached subcommand returns the cached
\* set and runs nothing; a call that returns caches what it returns, the
\* empty set of a failed probe included; no call changes or drops the
\* entry of a subcommand cached before it.
C16_CapabilityCache ==
    /\ [](\A c \in Subcommands : help_runs[c] <= 1)
    /\ [][ \A c \in DOMAIN colmap_options_cache :
             /\ c \in DOMAIN colmap_options_cache'
             /\ colmap_options_cache'[c] = colmap_options_cache[c] ]_vars
    /\ [][ (ret'.call = "colmap_options" /\ probe'.cmd \in DOMAIN colmap_options_cache)
            => /\ ret'.ret = "ok"
               /\ probe'.opts = colmap_options_cache[probe'.cmd]
               /\ effects' = <<>>
               /\ help_runs' = help_runs
               /\ disk' = disk ]_vars
    /\ [][ (ret'.call = "colmap_options" /\ ret'.ret = "ok")
            => /\ probe'.cmd \in DOMAIN colmap_options_cache'
               /\ colmap_options_cache'[probe'.cmd] = probe'.opts
               /\ DOMAIN colmap_options_cache' =
                     DOMAIN colmap_options_cache \cup {probe'.cmd} ]_vars

\* A probe that failed for a colmap whose help lists options was cached
\* as the empty set, and the next call for the subcommand got that set
\* without running anything.
C16_Witness ==
    /\ ncalls = 2
    /\ ret.call = "colmap_options"
    /\ probe.exit = "cached"
    /\ probe.opts = {}
    /\ ParseOptions(help[probe.cmd]) # {}
    /\ help_runs[probe.cmd] = 1
    /\ effects = <<>>

(***************************************************************************)
(* Properties of the command builders (SpecBuild).                         *)
(***************************************************************************)
\* The names of the flags of a command
FlagNames(command) ==
    { command[i][2] : i \in { j \in 1..Len(command) :
                                 Len(command[j]) = 2 /\ command[j][1] = "--" } }

\* The flag of name n stands in the command, followed by the value
Emits(command, n, value) ==
    \E i \in 1..(Len(command) - 1) : command[i] = Flag(n) /\ command[i + 1] = value

\* How many tokens of the command are flags with a name in names
FlagCount(command, names) ==
    Cardinality({ i \in 1..Len(command) :
                    Len(command[i]) = 2 /\ command[i][1] = "--"
                    /\ command[i][2] \in names })

\* The versioned concerns of the feature extractor: the name variants of
\* each, newest first
ExtractionConcerns ==
    { <<"FeatureExtraction.use_gpu", "SiftExtraction.use_gpu">>,
      <<"FeatureExtraction.max_image_size", "SiftExtraction.max_image_size">>,
      <<"FeatureExtraction.num_threads", "SiftExtraction.num_threads">> }

MatchingConcerns == { <<"FeatureMatching.use_gpu", "SiftMatching.use_gpu">> }

\* A feature-extraction command was built from the options probed for it
ExtractorBuilt ==
    /\ ret.call = "feature_extractor_cmd"
    /\ ret.ret = "ok"
    /\ probe.cmd = "feature_extractor"

MatcherBuilt ==
    /\ ret.call = "matcher_cmd"
    /\ ret.ret = "ok"
    /\ probe.cmd = MatcherSubcommand(cfg)

\* C17: the feature-extraction command holds a flag for the GPU toggle,
\* for the maximal image size, for the thread count if and only if one of
\* the concern's names is in the probed option set; with none of them the
\* concern is left out.
C17_CapabilityGated ==
    ExtractorBuilt =>
        \A k \in ExtractionConcerns :
            (FlagNames(cmd) \cap Range(k) # {}) <=> (probe.opts \cap Range(k) # {})

\* Options {FeatureExtraction.max_image_size, SiftExtraction.max_num_features}:
\* no use_gpu flag, the size under its FeatureExtraction name.
C17_Witness ==
    /\ ExtractorBuilt
    /\ probe.opts = {"FeatureExtraction.max_image_size", "SiftExtraction.max_num_features"}
    /\ FlagNames(cmd) \cap {"FeatureExtraction.use_gpu", "SiftExtraction.use_gpu"} = {}
    /\ Emits(cmd, "FeatureExtraction.max_image_size", Str(cfg.max_image_size))

\* The flags of a concern in a command built from opts: one flag, under the
\* first of the concern's names that opts holds
FirstVariantOnly(command, opts, k) ==
    \A i \in 1..Len(k) :
        (k[i] \in opts /\ \A j \in 1..(i - 1) : k[j] \notin opts)
            => /\ FlagNames(command) \cap Range(k) = {k[i]}
               /\ FlagCount(command, Range(k)) = 1

\* C18: of the names of a concern that are in the option set the builder
\* emits the first in the order FeatureExtraction.* before SiftExtraction.*
\* (FeatureMatching.* before SiftMatching.* for the matchers), once, and
\* decides each concern on its own.
C18_FlagPreference ==
    /\ ExtractorBuilt =>
          \A k \in ExtractionConcerns : FirstVariantOnly(cmd, probe.opts, k)
    /\ MatcherBuilt =>
          \A k \in MatchingConcerns : FirstVariantOnly(cmd, probe.opts, k)

\* Both GPU names and only the legacy size name are options: the command
\* mixes the newer GPU flag with the legacy size flag.
C18_Witness ==
    /\ ExtractorBuilt
    /\ {"FeatureExtraction.use_gpu", "SiftExtraction.use_gpu",
        "SiftExtraction.max_image_size"} \subseteq probe.opts
    /\ "FeatureExtraction.max_image_size" \notin probe.opts
    /\ Emits(cmd, "FeatureExtraction.use_gpu", BoolArg(cfg.use_gpu))
    /\ Emits(cmd, "SiftExtraction.max_image_size", Str(cfg.max_image_size))
    /\ "SiftExtraction.use_gpu" \notin FlagNames(cmd)

\* C19: whatever the probed option set, the empty one included, the
\* feature-extraction command holds the feature-count flag with the
\* configured value, the camera-model flag and the single-camera flag.
C19_StableFlags ==
    (ret.call = "feature_extractor_cmd" /\ ret.ret = "ok") =>
        /\ Emits(cmd, "SiftExtraction.max_num_features", Str(cfg.sift_max_num_features))
        /\ Emits(cmd, "ImageReader.camera_model", Tok(cfg.camera_model))
        /\ Emits(cmd, "ImageReader.single_camera", BoolArg(cfg.single_camera))

\* The parameter flags of a selection method
MethodPair(m) ==
    IF m = "best-n" THEN {"num-frames", "min-buffer"}
    ELSE IF m = "batched" THEN {"batch-size", "batch-buffer"}
    ELSE {"outlier-window-size", "outlier-sensitivity"}

\* C20: the frame-sampler command built for selection method m holds the
\* two parameter flags of m, each once, and no parameter flag of the other
\* two methods, whatever the numeric fields hold.
C20_MethodExclusive ==
    ret.call = "to_command" =>
        /\ FlagNames(cmd) \cap UNION { MethodPair(m) : m \in SELECTION_METHODS }
             = MethodPair(sharp.config.selection_method)
        /\ \A n \in MethodPair(sharp.config.selection_method) :
              FlagCount(cmd, {n}) = 1

\* A batched command: batch-size and batch-buffer with their values.
C20_Witness ==
    /\ ret.call = "to_command"
    /\ sharp.config.selection_method = "batched"
    /\ Emits(cmd, "batch-size", Str(sharp.config.batch_size))
    /\ Emits(cmd, "batch-buffer", Str(sharp.config.batch_buffer))
    /\ "num-frames" \notin FlagNames(cmd)
    /\ "outlier-window-size" \notin FlagNames(cmd)

(***************************************************************************)
(* Properties of the process service (SpecRun).                            *)
(***************************************************************************)
\* The last min(k, n) of k lines, in their order
LastLines(lines, n) ==
    LET k == Len(lines)
        m == IF k <= n THEN k ELSE n
    IN  [ i \in 1..m |-> lines[k - m + i] ]

\* C21: after each line read by run the deque holds at most tail_lines
\* lines; a nonzero exit makes run raise CommandFailedError with the
\* command, the exit code and, joined by line feeds, exactly the last
\* min(k, tail_lines) of the k output lines in their order.
C21_BoundedTail ==
    /\ Len(tail) <= proc.tail_lines
    /\ tail = LastLines(SubSeq(RunLines(proc.out), 1, nread), proc.tail_lines)
    /\ (outcome.kind # "running" /\ proc.returncode # 0) =>
          /\ outcome.kind = "CommandFailedError"
          /\ outcome.command = proc.command
          /\ outcome.returncode = proc.returncode
          /\ outcome.tail = Join(LastLines(RunLines(proc.out), proc.tail_lines))

\* run raised after more lines than the deque holds: the tail is the last
\* two of them.
C21_Witness ==
    /\ outcome.kind = "CommandFailedError"
    /\ proc.tail_lines = 2
    /\ Len(RunLines(proc.out)) > 2
    /\ outcome.tail = Join(SubSeq(RunLines(proc.out), Len(RunLines(proc.out)) - 1,
                                  Len(RunLines(proc.out))))

\* C22: on the same output, exit code and tail_lines, run_capture raises
\* exactly when run does, with the same tail; on exit code 0 it returns the
\* complete output.
C22_SameFailure ==
    (outcome.kind # "running" /\ captured.kind # "none") =>
        /\ captured.kind = outcome.kind
        /\ captured.tail = outcome.tail
        /\ captured.returncode = outcome.returncode
        /\ (proc.returncode = 0 => captured.out = proc.out)

\* C23: with a callback, the lines handed to on_line are at every moment
\* the lines read so far, each once and in the order produced; run has
\* read them all when it returns or raises, hands over nothing afterwards,
\* and returns normally exactly when the exit code is 0.
C23_StreamingOrder ==
    /\ [](/\ proc.on_line => delivered = SubSeq(RunLines(proc.out), 1, nread)
          /\ outcome.kind # "running" => nread = Len(RunLines(proc.out))
          /\ outcome.kind # "running" =>
                (outcome.kind = "returned" <=> proc.returncode = 0))
    /\ [][outcome.kind # "running" => delivered' = delivered]_vars

\* run returned after handing two or more distinct lines to the callback.
C23_Witness ==
    /\ outcome.kind = "returned"
    /\ proc.on_line
    /\ Len(delivered) >= 2
    /\ delivered[1] # delivered[2]
    /\ delivered = RunLines(proc.out)

\* C36: whenever run has handed control back to its caller, by returning
\* or by raising any error, an error of the on_line callback included, the
\* subprocess has exited and has been waited for.
C36_ChildFinished ==
    outcome.kind # "running" => child = "reaped"

(***************************************************************************)
(* Properties of one pipeline run (Spec): logging, callbacks, ingest,      *)
(* export.                                                                 *)
(***************************************************************************)
\* C24: every command the process service executes during a run (run or
\* run_capture) directly follows the log entry that names it.
C24_CommandsLogged ==
    \A i \in 1..Len(events) :
        events[i][1] \in {"run", "capture"} =>
            /\ i > 1
            /\ events[i - 1] = LogEvent(events[i][2])

IsStageCall(e) == e[1] = "stage"

\* The on_stage invocations of the run, in order
StageCalls == SelectSeq(events, IsStageCall)

\* C25: the stage callback has been invoked once for every transition made
\* along Validate, Ingest, Reconstruct, Export, Train, Done: as many
\* invocations as stages entered after Validate.
C25_StageCallback ==
    Len(StageCalls) = Len(entered) - 1

(***************************************************************************)
(* Properties of the workspaces of successive runs (SpecWs).               *)
(***************************************************************************)
\* C26: any two Workspace.create calls return distinct roots, and every
\* call finds the images directory of its workspace empty.
C26_WorkspaceUnique ==
    /\ \A i, j \in DOMAIN created : i # j => created[i].root # created[j].root
    /\ \A i \in DOMAIN created : created[i].found = {}

\* The entries of the dataset directory below sub
DatasetEntries(sub) == { p[2] : p \in { q \in dataset_dir : q[1] = sub } }

SamplerRuns == Count(RunEvent("sharp_frames"), events)

\* Ingest is over: Reconstruct was entered or the run failed in Ingest.
IngestOver ==
    \/ "Reconstruct" \in Range(entered)
    \/ pos = "raised" /\ entered = <<"Validate", "Ingest">>

\* C28: for image input, with sampling disabled Ingest copies the input
\* directory's images (as many as it holds) and invokes no sampler; with
\* sampling enabled it invokes the sampler exactly once; either way, when
\* the workspace then holds no image, Ingest fails with ValidationError and
\* no reconstruction command has run, and Reconstruct is entered only with
\* at least one image.
C28_ImageIngest ==
    (config.input_type = "images" /\ IngestOver) =>
        /\ ~config.frame_sampling.enabled =>
              /\ SamplerRuns = 0
              /\ images = src.images
        /\ config.frame_sampling.enabled => SamplerRuns = 1
        /\ "Reconstruct" \in Range(entered) => images > 0
        /\ (images = 0 /\ error # "CommandFailedError") =>
              /\ pos = "raised"
              /\ error = "ValidationError"
              /\ ReconRuns = <<>>
              /\ ResolveEvent("colmap") \notin Range(events)

\* The sampler ran once over an input directory and left nothing: the run
\* failed with ValidationError.
C28_Witness ==
    /\ config.input_type = "images"
    /\ config.frame_sampling.enabled
    /\ src.images >= 1
    /\ SamplerRuns = 1
    /\ images = 0
    /\ error = "ValidationError"

\* C29: for video input the sampler invocations are, at any time, one for
\* each of the first videos in name order; Ingest succeeds only after one
\* invocation per video found; with no video found Ingest fails with
\* ValidationError and no invocation; and once an invocation has failed
\* there is no further one.
C29_VideoIngest ==
    /\ [](config.input_type = "video" =>
            /\ sampled = [ i \in 1..Len(sampled) |-> i ]
            /\ SamplerRuns = Len(sampled)
            /\ Len(sampled) <= src.videos
            /\ "Reconstruct" \in Range(entered) => Len(sampled) = src.videos
            /\ (src.videos = 0 /\ IngestOver) =>
                  /\ error = "ValidationError"
                  /\ sampled = <<>>)
    /\ [][error # "none" => sampled' = sampled]_vars

\* Three videos yielded in descending name order were sampled in ascending
\* order.
C29_Witness ==
    /\ config.input_type = "video"
    /\ src.videos = 3
    /\ listing[1] = 3
    /\ sampled = <<1, 2, 3>>
    /\ "Reconstruct" \in Range(entered)

(***************************************************************************)
(* Properties of the frames of a video ingest (SpecFrames).                *)
(***************************************************************************)
\* C30: no frame is copied to a name that is already in the images
\* directory, whatever the stems of the videos, so the directory holds as
\* many files as the samplers produced frames.
C30_FrameNamesUnique ==
    /\ [](Cardinality(images_dir) = copied)
    /\ [][copied' # copied => images_dir' # images_dir]_vars

\* Three videos, the first two of one stem and the third with a stem that
\* ends like an index, two frames each: six files.
C30_Witness ==
    /\ Len(stems) = 3
    /\ stems[1] = stems[2]
    /\ stems[3] = <<"a", "_", "0", "0", "1">>
    /\ fi = 3
    /\ copied = 6
    /\ Cardinality(images_dir) = 6

(***************************************************************************)
(* Properties of the trainer's command builder (SpecBuild).                *)
(***************************************************************************)
\* The toggles of LichtfeldConfig with the flag of each
ToggleOf(c) ==
    { <<c.gut, "gut">>, <<c.ppisp_controller, "ppisp-controller">>,
      <<c.mip_filter, "enable-mip">>, <<c.headless, "headless">>,
      <<c.eval, "eval">>, <<c.save_eval_images, "save-eval-images">> }

\* C31: the trainer command holds the data path, output path, iteration
\* count, resize factor, strategy and max cap flags with the configured
\* values, and --train and --no-splash; each of the six toggle flags
\* stands in it exactly when its toggle is set; --test-every stands in it,
\* with the configured value, exactly when that value is not 0.
C31_TrainerCommand ==
    (ret.call = "lichtfeld_to_command" /\ ret.ret = "ok") =>
        /\ Emits(cmd, "data-path", Tok("data_path"))
        /\ Emits(cmd, "output-path", Tok("output_path"))
        /\ Emits(cmd, "iter", Str(lf.iterations))
        /\ Emits(cmd, "resize_factor", Tok(lf.resize_factor))
        /\ Emits(cmd, "strategy", Tok(lf.strategy))
        /\ Emits(cmd, "max-cap", Str(lf.max_cap))
        /\ {"train", "no-splash"} \subseteq FlagNames(cmd)
        /\ \A t \in ToggleOf(lf) : t[1] <=> t[2] \in FlagNames(cmd)
        /\ (lf.test_every # 0) <=> "test-every" \in FlagNames(cmd)
        /\ lf.test_every # 0 => Emits(cmd, "test-every", Str(lf.test_every))

\* A command with some toggles set and others not, and no test cadence.
C31_Witness ==
    /\ ret.call = "lichtfeld_to_command"
    /\ ret.ret = "ok"
    /\ lf.gut /\ ~lf.headless /\ lf.eval /\ ~lf.mip_filter
    /\ lf.test_every = 0
    /\ "gut" \in FlagNames(cmd)
    /\ "headless" \notin FlagNames(cmd)
    /\ "test-every" \notin FlagNames(cmd)

\* The calls that are command builders
BuilderCalls == {"feature_extractor_cmd", "matcher_cmd", "to_command", "lichtfeld_to_command"}

\* C33: a call of a command builder spawns no process, downloads and
\* installs nothing, and leaves the resolver's capability cache and the
\* disk as they were.
C33_BuilderPurity ==
    [][ret'.call \in BuilderCalls =>
         /\ help_runs' = help_runs
         /\ creates' = creates
         /\ colmap_options_cache' = colmap_options_cache
         /\ disk' = disk]_vars

(***************************************************************************)
(* Properties of the validation of a job (Spec).                           *)
(***************************************************************************)
\* The sub-configurations whose validate raises
RaisingParts(c) ==
    { part \in {"input", "output", "frame_sampling", "colmap", "lichtfeld"} :
        \/ part = "input" /\ ~c.input_ok
        \/ part = "output" /\ ~c.output_ok
        \/ part = "frame_sampling" /\ c.frame_sampling.enabled
             /\ (\/ ~c.frame_sampling.params_ok
                 \/ c.frame_sampling.selection_method = "best-n"
                      /\ c.frame_sampling.num_frames <= 0)
        \/ part = "colmap" /\ ~c.colmap_ok
        \/ part = "lichtfeld" /\ ~c.lichtfeld_ok }

\* C32: the validation of the whole configuration raises ValidationError
\* exactly when the validation of at least one of the five
\* sub-configurations (input, output, frame sampling, reconstruction,
\* training) raises; otherwise the run goes on to Ingest.
C32_AggregateValidation ==
    [][pos = "validate" =>
         /\ (error' = "ValidationError" /\ pos' = "raised")
              <=> RaisingParts(config) # {}
         /\ pos' = "ingest" <=> RaisingParts(config) = {}]_vars

\* A configuration rejected for num_frames = 0 under enabled best-n sampling
\* alone.
C32_Witness ==
    /\ pos = "raised"
    /\ error = "ValidationError"
    /\ entered = <<"Validate">>
    /\ RaisingParts(config) = {"frame_sampling"}
    /\ config.frame_sampling.params_ok
    /\ config.frame_sampling.num_frames = 0

(***************************************************************************)
(* Properties of two resolvers over one tools directory (SpecInstall).     *)
(***************************************************************************)
\* C34: nothing makes the marker check and the install mutually exclusive:
\* a resolver whose marker check of ensure_env finds no marker goes on to
\* the install (with auto-install enabled) whatever the other resolver is
\* doing, so both can pass the check and both run the create command on
\* the one environment directory.
C34_UnlockedInstalls ==
    [][\A i \in Resolvers :
          (/\ At(i, "ensure_env", "marker_check")
           /\ inst'[i] # inst[i]
           /\ settings.auto_install_tools)
          => (inst'[i].pc = "ensure_micromamba" <=> ~tools_dir.env_marker)]_vars

\* Both resolvers passed the marker check and both create commands are
\* running on the environment directory, no marker written yet.
C34_Witness ==
    /\ \A i \in Resolvers : At(i, "ensure_env", "creating")
    /\ ~tools_dir.env_marker

\* C35: an install marker exists only if the install step it stands for
\* finished successfully: the environment's marker only after a create
\* command exited zero, the official release's only after the archive was
\* extracted and the executable found; a failed or interrupted install
\* leaves none.
C35_MarkerImpliesInstall ==
    /\ tools_dir.env_marker => done.env_created
    /\ tools_dir.official_marker => done.official_found

\* One resolver's create command failed and the other's install was
\* interrupted after its own create command had started: no marker.
C35_Witness ==
    /\ inst[1].ret = "CommandFailedError"
    /\ inst[2].pc = "killed"
    /\ inst[2].method = "ensure_env"
    /\ ~tools_dir.env_marker

(***************************************************************************)
(* Properties of the resolver without auto-install (SpecTool).             *)
(***************************************************************************)
\* What a download, a release query, an extraction or an install leaves in
\* the effects
InstallEffects ==
    {"download:colmap", "download:lichtfeld", "download:micromamba",
     "extract:colmap", "extract:lichtfeld", "extract:micromamba",
     "http:colmap_latest", "http:lichtfeld_release", "run:micromamba create",
     "write:env_marker", "write:official_marker"}

\* C38: with auto_install_tools false no resolver call downloads a file,
\* queries a release endpoint or runs the create command, and none changes
\* the tools directory; the call returns a descriptor or raises
\* ToolNotFoundError.
C38_NoAutoInstall ==
    /\ [](~settings.auto_install_tools =>
            /\ Range(effects) \cap InstallEffects = {}
            /\ creates = 0
            /\ ret.ret \in {"none", "ok", "ToolNotFoundError"})
    /\ [][~settings.auto_install_tools => disk' = disk]_vars

\* With auto-install disabled and no trainer configured or on PATH, the
\* trainer was asked for after another call and was not found; only the
\* two PATH lookups were made.
C38_Witness ==
    /\ ~settings.auto_install_tools
    /\ ret.call = "lichtfeld_exec"
    /\ ret.ret = "ToolNotFoundError"
    /\ effects = <<"which:LichtFeld-Studio", "which:LichtFeld-Studio.exe">>
    /\ ~disk.micromamba
    /\ ncalls > 1

(***************************************************************************)
(* Properties of one pipeline run (Spec): gates and tool resolution.       *)
(***************************************************************************)
\* C37: the image_undistorter command is executed only if sparse/0 exists
\* once the mapper has finished: after a mapper that exited zero without
\* producing sparse/0 no undistortion command is executed.
C37_UndistortionGated ==
    RunEvent("image_undistorter") \in Range(events) => sparse0

\* Some event before the i-th is e
Earlier(i, e) == \E j \in 1..(i - 1) : events[j] = e

\* C39: the trainer is resolved only once the Train stage has begun; the
\* reconstruction tool is resolved before the first reconstruction command
\* and the first capability probe; so a run whose trainer is not found raises
\* ToolNotFoundError only after Ingest, Reconstruct and Export, with the
\* exported dataset written to the output directory.
C39_LateTrainerResolution ==
    /\ \A i \in DOMAIN events :
          /\ events[i] = ResolveEvent("lichtfeld") =>
                Earlier(i, StageEvent("LichtFeld Studio"))
          /\ (IsReconRun(events[i]) \/ events[i][1] = "capture") =>
                Earlier(i, ResolveEvent("colmap"))
    /\ (/\ pos = "raised"
        /\ error = "ToolNotFoundError"
        /\ ResolveEvent("lichtfeld") \in Range(events)) =>
          /\ entered = <<"Validate", "Ingest", "Reconstruct", "Export", "Train">>
          /\ Len(ReconRuns) = Len(ColmapCommands(config.matcher))
          /\ dataset
          /\ DatasetEntries("images") = WorkspaceImages(images)
          /\ DatasetEntries("colmap") = ColmapTree(sparse0)

\* A run that failed for want of the trainer, after four reconstruction
\* commands and the export of an image and sparse/0.
C39_Witness ==
    /\ pos = "raised"
    /\ error = "ToolNotFoundError"
    /\ events[Len(events)] = ResolveEvent("lichtfeld")
    /\ Len(ReconRuns) = 4
    /\ <<"images", <<"img", 1>>>> \in dataset_dir
    /\ <<"colmap", <<"sparse", 0>>>> \in dataset_dir
    /\ out_exists

(***************************************************************************)
(* Properties of the choice of the trainer's release asset (SpecAsset).    *)
(***************************************************************************)
\* C40: the asset chosen for download is the first one, in the listed
\* order, that has a download URL, a .zip name and a name matching the
\* platform; an asset built for another operating system than the current
\* one is never chosen.
C40_AssetMatchesPlatform ==
    chosen.done =>
        /\ chosen.index = FirstTaken(assets, lichtfeld_keywords(platform_tag), 1)
        /\ \A i \in 1..(chosen.index - 1) :
              ~AssetTaken(assets[i], lichtfeld_keywords(platform_tag))
        /\ chosen.index # 0 =>
              /\ AssetTaken(assets[chosen.index], lichtfeld_keywords(platform_tag))
              /\ assets[chosen.index].os \in {"any", PlatformOS(platform_tag)}
====
